---- MODULE Spec2Model ----
(***************************************************************************)
(* FoodBargainApp backend: the deal lifecycle (partner-deals routes and    *)
(* the deal-status-manager job) and the discovery engine (search routes).  *)
(* The relational store is modelled table by table; every handler is one   *)
(* action that reads and writes the tables the way its queries do.         *)
(***************************************************************************)
EXTENDS Integers, Sequences, FiniteSets, TLC

\* ------------------------------------------------------------------ bounds
MaxDeals == 2
MaxDay == 3
MaxPage == 2
MaxLimit == 2

\* ------------------------------------------------------------ store schema
DealIds == 1..MaxDeals
RestaurantIds == {1, 2}
PartnerIds == {1}
CuisineIds == {1, 2}
DietaryIds == {1}
Dates == 1..MaxDay

\* pgEnum("deal_status", ...)
dealStatusEnum == {"draft", "active", "expired", "archived"}

\* cuisines(id, name unique) and dietary_preferences(id, name unique): reference rows
cuisines == {[id |-> 1, name |-> "Italian"], [id |-> 2, name |-> "Mexican"]}
dietaryPreferences == {[id |-> 1, name |-> "Vegan"]}

\* users(id, clerk_user_id unique)
UserIds == {"user_1", "user_2"}
users == {[id |-> "user_1", clerkUserId |-> "clerk_1"],
          [id |-> "user_2", clerkUserId |-> "clerk_2"]}

\* an optional request field: Undefined when the request leaves it out, Some(v) otherwise
Undefined == {}
Some(v) == {v}
Get(opt) == CHOOSE v \in opt : TRUE
Optional(S) == {Undefined} \cup {Some(v) : v \in S}

VARIABLES
  deals,                    \* deals table: id -> row, for the ids that exist
  nextDealId,               \* identity sequence of deals.id
  dealCuisines,             \* deal_cuisines: set of <<dealId, cuisineId>>
  dealDietaryPreferences,   \* deal_dietary_preferences: set of <<dealId, dietaryPreferenceId>>
  restaurants,              \* restaurants table: id -> row
  today,                    \* CURRENT_DATE of the database
  resp,                     \* what the last operation answered or logged
  userFavoriteRestaurants,  \* user_favorite_restaurants: rows [id, userId, restaurantId, notifyOnDeal]
  userFavoriteDeals,        \* user_favorite_deals: rows [id, userId, dealId]
  jobRuns,                  \* the calls of manageDealStatuses: run -> where it stands
  requests,                 \* the route handlers in flight: slot -> where it stands
  notifications             \* notifications: rows [userId, dealId, type]

vars == <<deals, nextDealId, dealCuisines, dealDietaryPreferences, restaurants, today, resp,
          userFavoriteRestaurants, userFavoriteDeals, jobRuns, requests,
          notifications>>

store == <<deals, nextDealId, dealCuisines, dealDietaryPreferences, restaurants>>

\* what the partner routes, the one-step job and the search routes never write
others == <<userFavoriteRestaurants, userFavoriteDeals, jobRuns, requests, notifications>>

Min(a, b) == IF a <= b THEN a ELSE b
Max(a, b) == IF a >= b THEN a ELSE b

\* Math.ceil(a / b) for a >= 0, b >= 1
Ceil(a, b) == (a + b - 1) \div b

\* ------------------------------------------------- deal-status-manager job
\* where status = draft and start_date <= CURRENT_DATE and end_date >= CURRENT_DATE
DraftToActiveRows_NoEndCheck(ds, t) ==
  {d \in DOMAIN ds : ds[d].status = "draft" /\ ds[d].startDate <= t}

\* where status = draft and start_date <= CURRENT_DATE and end_date >= CURRENT_DATE
DraftToActiveRows(ds, t) ==
  {d \in DOMAIN ds : ds[d].status = "draft" /\ ds[d].startDate <= t /\ ds[d].endDate >= t}

\* a run that also expires the deals ending today
ActiveToExpiredRows_EndsToday(ds, t) ==
  {d \in DOMAIN ds : ds[d].status = "active" /\ ds[d].endDate <= t}

\* where status = active and end_date < CURRENT_DATE
ActiveToExpiredRows(ds, t) ==
  {d \in DOMAIN ds : ds[d].status = "active" /\ ds[d].endDate < t}

\* a run that reactivates only the deals ending after today
ExpiredToActiveRows_StrictEnd(ds, t) ==
  {d \in DOMAIN ds : ds[d].status = "expired" /\ ds[d].startDate <= t /\ ds[d].endDate > t}

\* a run that reactivates every started expired deal, ended or not
ExpiredToActiveRows_NoEndCheck(ds, t) ==
  {d \in DOMAIN ds : ds[d].status = "expired" /\ ds[d].startDate <= t}

\* where status = expired and start_date <= CURRENT_DATE and end_date >= CURRENT_DATE
ExpiredToActiveRows(ds, t) ==
  {d \in DOMAIN ds : ds[d].status = "expired" /\ ds[d].startDate <= t /\ ds[d].endDate >= t}

\* db.update(deals).set({status}).where(id in rows)
SetStatus(ds, rows, s) ==
  [d \in DOMAIN ds |-> IF d \in rows THEN [ds[d] EXCEPT !.status = s] ELSE ds[d]]

\* the three bulk updates of one run, in the order of the job, with the counts it logs
SweepResult(ds, t) ==
  LET r1 == DraftToActiveRows(ds, t)
      d1 == SetStatus(ds, r1, "active")
      r2 == ActiveToExpiredRows(d1, t)
      d2 == SetStatus(d1, r2, "expired")
      r3 == ExpiredToActiveRows(d2, t)
      d3 == SetStatus(d2, r3, "active")
  IN [deals |-> d3,
      activated |-> r1, expired |-> r2, reactivated |-> r3,
      stats |-> [draftToActive |-> Cardinality(r1),
                 activeToExpired |-> Cardinality(r2),
                 expiredToActive |-> Cardinality(r3)]]

\* what preceded a run of the job: the operation before it, the deal it wrote, its
\* outcome, and (for a run of the job) the rows that run moved
Preceding(r) ==
  [op |-> r.op,
   dealId |-> IF r.op \in {"create", "put", "patch", "delete"} THEN r.dealId ELSE 0,
   code |-> IF r.op \in {"create", "put", "patch", "delete"} THEN r.code ELSE 0,
   moved |-> IF r.op = "sweep"
             THEN r.stats.draftToActive + r.stats.activeToExpired + r.stats.expiredToActive
             ELSE 0]

manageDealStatuses ==
  LET r == SweepResult(deals, today)
  IN /\ deals' = r.deals
     /\ resp' = [op |-> "sweep", stats |-> r.stats, activated |-> r.activated,
                  expired |-> r.expired, reactivated |-> r.reactivated,
                  after |-> Preceding(resp)]
     /\ UNCHANGED <<nextDealId, dealCuisines, dealDietaryPreferences, restaurants, today, others>>

\* a calendar that can be set back
AdvanceDay_SetBack ==
  /\ today' \in Dates \ {today}
  /\ resp' = [op |-> "day"]
  /\ UNCHANGED <<store, others>>

\* the database's calendar date moves on
AdvanceDay ==
  /\ today < MaxDay
  /\ today' = today + 1
  /\ resp' = [op |-> "day"]
  /\ UNCHANGED <<store, others>>

\* ------------------------------------------------------ partner-deals routes
\* the edge rows inserted for one deal: ids.map((id) => ({dealId, id}))
EdgeRows(d, ids) == {<<d, i>> : i \in ids}

\* db.delete(table).where(eq(table.dealId, d))
WithoutDeal(edges, d) == {e \in edges : e[1] # d}

\* the in-app notifications of a new deal: one for every user who bookmarked the
\* restaurant with notifyOnDeal
NewDealNotifications(r, d) ==
  {[userId |-> b.userId, dealId |-> d, type |-> "new_deal"] :
     b \in {x \in userFavoriteRestaurants : x.restaurantId = r /\ x.notifyOnDeal}}

\* POST /partner-deals: validate the dates, insert the deal as a draft, insert its
\* edges, notify the users who follow the restaurant
CreateDeal(r, s, e, cs, dp) ==
  /\ nextDealId <= MaxDeals
  /\ IF s >= e
     THEN /\ resp' = [op |-> "create", code |-> 400, dealId |-> 0]
          /\ UNCHANGED <<store, today, others>>
     ELSE /\ deals' = [d \in DOMAIN deals \cup {nextDealId} |->
                         IF d = nextDealId
                         THEN [status |-> "draft", startDate |-> s, endDate |-> e,
                               restaurantId |-> r, partnerId |-> restaurants[r].partnerId]
                         ELSE deals[d]]
          /\ nextDealId' = nextDealId + 1
          /\ dealCuisines' = dealCuisines \cup EdgeRows(nextDealId, cs)
          /\ dealDietaryPreferences' = dealDietaryPreferences \cup EdgeRows(nextDealId, dp)
          /\ notifications' = notifications \cup NewDealNotifications(r, nextDealId)
          /\ resp' = [op |-> "create", code |-> 201, dealId |-> nextDealId]
          /\ UNCHANGED <<restaurants, today, userFavoriteRestaurants, userFavoriteDeals,
                         jobRuns, requests>>

\* an edit check that turns expired deals away as well
CanModify_NotExpired(row) == row.status \notin {"archived", "expired"}

\* the archived check of PUT /partner-deals/:dealId
CanModify(row) == row.status # "archived"

\* "Validate date relationship if both dates are being updated"
DatesRejected(s, e) == s # Undefined /\ e # Undefined /\ Get(s) >= Get(e)

\* PUT /partner-deals/:dealId: s, e, cs, dp are Undefined when the body leaves them out
UpdateDeal(d, s, e, cs, dp) ==
  IF d \notin DOMAIN deals
  THEN /\ resp' = [op |-> "put", code |-> 404, dealId |-> d,
                   error |-> <<"Resource not found">>, logged |-> <<>>]
       /\ UNCHANGED <<store, today, others>>
  ELSE IF ~CanModify(deals[d])
  THEN /\ resp' = [op |-> "put", code |-> 500, dealId |-> d,
                   error |-> <<"Failed to update deal">>,
                   logged |-> <<"Cannot modify archived deals">>]
       /\ UNCHANGED <<store, today, others>>
  ELSE IF DatesRejected(s, e)
  THEN /\ resp' = [op |-> "put", code |-> 500, dealId |-> d,
                   error |-> <<"Failed to update deal">>,
                   logged |-> <<"Start date must be before end date">>]
       /\ UNCHANGED <<store, today, others>>
  ELSE /\ deals' = [deals EXCEPT ![d] =
                      [@ EXCEPT !.startDate = IF s = Undefined THEN @ ELSE Get(s),
                                !.endDate = IF e = Undefined THEN @ ELSE Get(e)]]
       /\ dealCuisines' = IF cs = Undefined THEN dealCuisines
                          ELSE WithoutDeal(dealCuisines, d) \cup EdgeRows(d, Get(cs))
       /\ dealDietaryPreferences' = IF dp = Undefined THEN dealDietaryPreferences
                                    ELSE WithoutDeal(dealDietaryPreferences, d) \cup EdgeRows(d, Get(dp))
       /\ resp' = [op |-> "put", code |-> 200, dealId |-> d, error |-> <<>>, logged |-> <<>>]
       /\ UNCHANGED <<nextDealId, restaurants, today, others>>

\* a transition table that lets an archived deal be restored to draft
validTransitions_Restore(from) ==
  CASE from = "draft" -> {"active", "archived"}
    [] from = "active" -> {"expired", "archived"}
    [] from = "expired" -> {"archived"}
    [] OTHER -> {"draft"}

\* validTransitions of PATCH /partner-deals/:dealId/status
validTransitions(from) ==
  CASE from = "draft" -> {"active", "archived"}
    [] from = "active" -> {"expired", "archived"}
    [] from = "expired" -> {"archived"}
    [] OTHER -> {}

\* validStatuses of PATCH /partner-deals/:dealId/status
validStatuses == {"draft", "active", "expired", "archived"}

\* the status values request bodies carry, one of them no status of a deal
BodyStatuses == validStatuses \cup {"paused"}

\* PATCH /partner-deals/:dealId/status: the thrown error is logged by
\* DbHelper.handleDbError, which answers 500 with the route's own message
UpdateDealStatus(d, status) ==
  IF status \notin validStatuses
  THEN /\ resp' = [op |-> "patch", code |-> 400, dealId |-> d, status |-> status,
                   error |-> <<"Valid status required (draft, active, expired, archived)">>,
                   logged |-> <<>>]
       /\ UNCHANGED <<store, today, others>>
  ELSE IF d \notin DOMAIN deals
  THEN /\ resp' = [op |-> "patch", code |-> 404, dealId |-> d, status |-> status,
                   error |-> <<"Resource not found">>, logged |-> <<>>]
       /\ UNCHANGED <<store, today, others>>
  ELSE IF status \notin validTransitions(deals[d].status)
  THEN /\ resp' = [op |-> "patch", code |-> 500, dealId |-> d, status |-> status,
                   error |-> <<"Failed to update deal status">>,
                   logged |-> <<"Cannot transition from", deals[d].status, "to", status>>]
       /\ UNCHANGED <<store, today, others>>
  ELSE /\ deals' = [deals EXCEPT ![d].status = status]
       /\ resp' = [op |-> "patch", code |-> 200, dealId |-> d, status |-> status,
                   error |-> <<>>, logged |-> <<>>]
       /\ UNCHANGED <<nextDealId, dealCuisines, dealDietaryPreferences, restaurants, today, others>>

\* the rows whose deal_id references the deal (no ON DELETE action): the deal row
\* cannot be deleted while there is one
ReferencesDeal(d) ==
  {n \in notifications : n.dealId = d} \cup {f \in userFavoriteDeals : f.dealId = d}

\* DELETE /partner-deals/:dealId: drafts only; the edges first, then the row, three
\* statements without a transaction
DeleteDeal(d) ==
  IF d \notin DOMAIN deals
  THEN /\ resp' = [op |-> "delete", code |-> 404, dealId |-> d]
       /\ UNCHANGED <<store, today, others>>
  ELSE IF deals[d].status # "draft"
  THEN /\ resp' = [op |-> "delete", code |-> 500, dealId |-> d]
       /\ UNCHANGED <<store, today, others>>
  ELSE IF ReferencesDeal(d) # {}
  THEN /\ dealCuisines' = WithoutDeal(dealCuisines, d)
       /\ dealDietaryPreferences' = WithoutDeal(dealDietaryPreferences, d)
       /\ resp' = [op |-> "delete", code |-> 500, dealId |-> d]
       /\ UNCHANGED <<deals, nextDealId, restaurants, today, others>>
  ELSE /\ deals' = [x \in DOMAIN deals \ {d} |-> deals[x]]
       /\ dealCuisines' = WithoutDeal(dealCuisines, d)
       /\ dealDietaryPreferences' = WithoutDeal(dealDietaryPreferences, d)
       /\ resp' = [op |-> "delete", code |-> 200, dealId |-> d]
       /\ UNCHANGED <<nextDealId, restaurants, today, others>>

\* ------------------------------------------------------- routes/search.ts
\* parseFilters: page = max(1, page), limit = min(100, max(1, limit)); the facet ids
\* come from cuisineIds and dietaryPreferenceIds only (a cuisine or dietaryPreference
\* name in the query string is not read); an absent sortOrder defaults by sortBy
parseFilters(q) ==
  LET sortBy == IF q.sortBy \in {"rating", "distance", "newest"} THEN q.sortBy ELSE "relevance"
  IN [cuisineIds |-> q.cuisineIds,
      dietaryIds |-> q.dietaryPreferenceIds,
      latitude |-> q.latitude,
      longitude |-> q.longitude,
      distanceKm |-> q.distance,
      hasActiveDeals |-> q.hasActiveDeals,
      page |-> Max(1, q.page),
      limit |-> Min(100, Max(1, q.limit)),
      sortBy |-> sortBy,
      sortOrder |-> IF q.sortOrder \in {"asc", "desc"} THEN q.sortOrder
                    ELSE IF sortBy \in {"rating", "newest", "relevance"} THEN "desc" ELSE "asc"]

\* the truth value JavaScript gives an optional number: undefined and 0 are false
Truthy(opt) == opt # Undefined /\ Get(opt) # 0

Abs(n) == IF n < 0 THEN 0 - n ELSE n

\* whole kilometres to one degree of a great circle of radius 6371 km
KmPerDegree == (6371 * 314159) \div (180 * 100000)

\* getDistanceSql / buildDistanceExpression: 6371 * acos(cos(lat) cos(targetLat)
\* cos(targetLng - lng) + sin(lat) sin(targetLat)). Every longitude that reaches
\* this expression in the model is the same meridian, where the sum is
\* cos(lat - targetLat) and the distance is the difference of the latitudes
getDistanceSql(lat, lng, targetLat, targetLng) == KmPerDegree * Abs(lat - targetLat)

\* distanceCol of a row: NULL unless the request has both coordinates and the
\* restaurant has both
DistanceCol(latitude, longitude, r) ==
  IF /\ latitude # Undefined /\ longitude # Undefined
     /\ restaurants[r].latitude # {} /\ restaurants[r].longitude # {}
  THEN {getDistanceSql(Get(latitude), Get(longitude),
                       Get(restaurants[r].latitude), Get(restaurants[r].longitude))}
  ELSE {}

\* ORDER BY puts NULL after every value when ascending and before when descending
NullSortKey == KmPerDegree * 360

DistanceSortKey(latitude, longitude, r) ==
  IF DistanceCol(latitude, longitude, r) = {} THEN NullSortKey
  ELSE Get(DistanceCol(latitude, longitude, r))

\* the location filter: if (filters.distanceKm) conditions.push(distanceCol <= distanceKm)
LocationCondition(f, r) ==
  (f.latitude # Undefined /\ f.longitude # Undefined /\ Truthy(f.distanceKm))
    => /\ DistanceCol(f.latitude, f.longitude, r) # {}
       /\ Get(DistanceCol(f.latitude, f.longitude, r)) <= Get(f.distanceKm)

\* exists(select from deal_cuisines where dealId = d and cuisineId in ids)
HasCuisineIn(d, ids) == \E c \in ids : <<d, c>> \in dealCuisines

\* exists(select from deal_dietary_preferences where dealId = d and dietaryPreferenceId in ids)
HasDietaryIn(d, ids) == \E c \in ids : <<d, c>> \in dealDietaryPreferences

\* dealConditions of searchRestaurants: one deal of the restaurant meets all of them
RestaurantDealCondition(f, r, d) ==
  /\ deals[d].restaurantId = r
  /\ deals[d].status = "active"
  /\ (f.cuisineIds # {} => HasCuisineIn(d, f.cuisineIds))
  /\ (f.dietaryIds # {} => HasDietaryIn(d, f.dietaryIds))

\* conditions of searchRestaurants
RestaurantConditions(f, r) ==
  /\ restaurants[r].isActive
  /\ LocationCondition(f, r)
  /\ (f.cuisineIds # {} \/ f.dietaryIds # {} \/ f.hasActiveDeals)
       => \E d \in DOMAIN deals : RestaurantDealCondition(f, r, d)

\* baseQuery of searchRestaurants: restaurants inner join partners where conditions
RestaurantBaseQuery(f) ==
  {r \in DOMAIN restaurants : restaurants[r].partnerId \in PartnerIds /\ RestaurantConditions(f, r)}

\* a deal search that leaves out the status condition
DealConditions_AnyStatus(f, d) ==
  /\ LocationCondition(f, deals[d].restaurantId)
  /\ (f.cuisineIds # {} => HasCuisineIn(d, f.cuisineIds))
  /\ (f.dietaryIds # {} => HasDietaryIn(d, f.dietaryIds))

\* conditions of searchDeals
DealConditions(f, d) ==
  /\ deals[d].status = "active"
  /\ LocationCondition(f, deals[d].restaurantId)
  /\ (f.cuisineIds # {} => HasCuisineIn(d, f.cuisineIds))
  /\ (f.dietaryIds # {} => HasDietaryIn(d, f.dietaryIds))

\* baseQuery of searchDeals: deals inner join restaurants inner join partners where conditions
DealBaseQuery(f) ==
  {d \in DOMAIN deals : /\ deals[d].restaurantId \in DOMAIN restaurants
                        /\ deals[d].partnerId \in PartnerIds
                        /\ DealConditions(f, d)}

\* orderBy of searchRestaurants; relevance is
\* filters.latitude ? asc(distanceCol) : desc(restaurants.ratingAvg)
RestaurantSortKey(f, r) ==
  CASE f.sortBy = "rating" -> restaurants[r].ratingAvg
    [] f.sortBy = "newest" -> restaurants[r].createdAt
    [] f.sortBy = "distance" -> DistanceSortKey(f.latitude, f.longitude, r)
    [] OTHER -> IF Truthy(f.latitude) THEN DistanceSortKey(f.latitude, f.longitude, r)
                ELSE restaurants[r].ratingAvg

RestaurantSortDesc(f) ==
  CASE f.sortBy = "rating" -> f.sortOrder # "asc"
    [] f.sortBy = "newest" -> f.sortOrder # "asc"
    [] f.sortBy = "distance" -> f.sortOrder = "desc"
    [] OTHER -> ~Truthy(f.latitude)

\* orderBy of searchDeals; deals.createdAt follows the id; relevance and rating are
\* filters.latitude ? asc(distanceCol) : desc(deals.createdAt)
DealSortKey(f, d) ==
  CASE f.sortBy = "distance" -> DistanceSortKey(f.latitude, f.longitude, deals[d].restaurantId)
    [] f.sortBy = "newest" -> d
    [] OTHER -> IF Truthy(f.latitude)
                THEN DistanceSortKey(f.latitude, f.longitude, deals[d].restaurantId)
                ELSE d

DealSortDesc(f) ==
  CASE f.sortBy = "distance" -> f.sortOrder = "desc"
    [] f.sortBy = "newest" -> f.sortOrder # "asc"
    [] OTHER -> ~Truthy(f.latitude)

\* the orders in which ORDER BY may return the rows S: sorted by the key, rows with
\* equal keys in any order
Orderings(S, key, descending) ==
  {seq \in [1..Cardinality(S) -> S] :
     /\ \A i, j \in 1..Cardinality(S) : i # j => seq[i] # seq[j]
     /\ \A i, j \in 1..Cardinality(S) :
          i < j => IF descending THEN key[seq[i]] >= key[seq[j]] ELSE key[seq[i]] <= key[seq[j]]}

\* a page query that leaves out the offset
PageOf_NoOffset(seq, page, limit) ==
  [i \in 1..Min(limit, Len(seq)) |-> seq[i]]

\* .limit(limit).offset((page - 1) * limit) of an ordered result
PageOf(seq, page, limit) ==
  LET offset == (page - 1) * limit
  IN [i \in 1..Max(0, Min(limit, Len(seq) - offset)) |-> seq[offset + i]]

\* Math.ceil(totalCount / filters.limit) and the pagination object of search.ts
Pagination(f, totalCount) ==
  LET totalPages == Ceil(totalCount, f.limit)
  IN [currentPage |-> f.page,
      totalPages |-> totalPages,
      totalCount |-> totalCount,
      hasNextPage |-> f.page < totalPages,
      hasPreviousPage |-> f.page > 1]

\* the cuisines and dietary preferences joined to one deal
DealCuisineIds(d) == {c \in CuisineIds : <<d, c>> \in dealCuisines}
DealDietaryIds(d) == {c \in DietaryIds : <<d, c>> \in dealDietaryPreferences}

\* the subsets of S with k elements
RECURSIVE SubsetsOfSize(_, _)
SubsetsOfSize(S, k) ==
  IF k = 0 THEN {{}}
  ELSE IF Cardinality(S) < k THEN {}
  ELSE LET x == CHOOSE y \in S : TRUE
       IN SubsetsOfSize(S \ {x}, k) \cup {T \cup {x} : T \in SubsetsOfSize(S \ {x}, k - 1)}

\* .limit(50) of the active-deals hydration query
ActiveDealsLimit == 50

\* the results the active-deals query may return for the restaurants of a page:
\* deals of these restaurants with status active, at most ActiveDealsLimit of them
ActiveDealsRows(restaurantIds) ==
  LET all == {d \in DOMAIN deals : deals[d].restaurantId \in restaurantIds /\ deals[d].status = "active"}
  IN IF Cardinality(all) <= ActiveDealsLimit THEN {all}
     ELSE {all \ cut : cut \in SubsetsOfSize(all, Cardinality(all) - ActiveDealsLimit)}

\* optionalAuth: a Bearer token that verifies and whose subject has a users row
\* sets req.userId; no header, a token that does not verify (the catch block) or a
\* subject without a row leave it undefined
verifyToken(token) ==
  CASE token = "token_1" -> {"clerk_1"}
    [] token = "token_2" -> {"clerk_2"}
    [] token = "token_9" -> {"clerk_9"}
    [] OTHER -> {}

optionalAuth(authorization) ==
  IF authorization = Undefined THEN Undefined
  ELSE {u.id : u \in {x \in users : x.clerkUserId \in verifyToken(Get(authorization))}}

\* select restaurantId from user_favorite_restaurants where userId = u and
\* restaurantId in ids, run only if (userId) and the page has rows
RestaurantBookmarks(userId, ids, favorites) ==
  IF userId # Undefined /\ ids # {}
  THEN {r \in ids : \E row \in favorites : row.userId = Get(userId) /\ row.restaurantId = r}
  ELSE {}

DealBookmarks_AnyUser(userId, ids, favorites) ==
  IF userId # Undefined /\ ids # {}
  THEN {d \in ids : \E row \in favorites : row.dealId = d}
  ELSE {}

\* select dealId from user_favorite_deals where userId = u and dealId in ids
DealBookmarks(userId, ids, favorites) ==
  IF userId # Undefined /\ ids # {}
  THEN {d \in ids : \E row \in favorites : row.userId = Get(userId) /\ row.dealId = d}
  ELSE {}

BookmarkReads_Always(userId, ids, table) == IF ids # {} THEN {table} ELSE {}

\* the bookmark tables a search reads
BookmarkReads(userId, ids, table) == IF userId # Undefined /\ ids # {} THEN {table} ELSE {}

\* one restaurant item: ...row.restaurant, distanceKm, activeDeals, activeDealsCount,
\* isBookmarked
RestaurantItem(r, activeDealsRows, distanceKm, bookmarkedIds) ==
  LET mine == {d \in activeDealsRows : deals[d].restaurantId = r}
  IN [id |-> r,
      isActive |-> restaurants[r].isActive,
      ratingAvg |-> restaurants[r].ratingAvg,
      createdAt |-> restaurants[r].createdAt,
      distanceKm |-> distanceKm,
      activeDeals |-> {[id |-> d, cuisines |-> DealCuisineIds(d),
                        dietaryPreferences |-> DealDietaryIds(d)] : d \in mine},
      activeDealsCount |-> Cardinality(mine),
      isBookmarked |-> r \in bookmarkedIds]

\* one deal item: ...row.deal, restaurant, distanceKm, cuisines, dietaryPreferences,
\* isBookmarked
DealItem(d, distanceKm, bookmarkedIds) ==
  [id |-> d,
   status |-> deals[d].status,
   createdAt |-> d,
   restaurantId |-> deals[d].restaurantId,
   ratingAvg |-> restaurants[deals[d].restaurantId].ratingAvg,
   distanceKm |-> distanceKm,
   cuisines |-> DealCuisineIds(d),
   dietaryPreferences |-> DealDietaryIds(d),
   isBookmarked |-> d \in bookmarkedIds]

\* searchRestaurants(filters), reached through GET /search and GET /search/restaurants
searchRestaurants(q) ==
  LET f == parseFilters(q)
      base == RestaurantBaseQuery(f)
      key == [r \in base |-> RestaurantSortKey(f, r)]
  IN \E seq \in Orderings(base, key, RestaurantSortDesc(f)) :
       LET rows == PageOf(seq, f.page, f.limit)
           ids == {rows[i] : i \in DOMAIN rows}
           userId == optionalAuth(q.authorization)
           bookmarkedIds == RestaurantBookmarks(userId, ids, userFavoriteRestaurants)
       IN \E act \in ActiveDealsRows(ids) :
            /\ resp' = [op |-> "searchRestaurants", impl |-> "search.ts", query |-> q,
                        filters |-> f, code |-> 200, userId |-> userId,
                        reads |-> BookmarkReads(userId, ids, "userFavoriteRestaurants"),
                        items |-> [i \in DOMAIN rows |->
                                     RestaurantItem(rows[i], act,
                                                    DistanceCol(f.latitude, f.longitude, rows[i]),
                                                    bookmarkedIds)],
                        pagination |-> Pagination(f, Cardinality(base))]
            /\ UNCHANGED <<store, today, others>>

\* searchDeals(filters), reached through GET /search
searchDeals(q) ==
  LET f == parseFilters(q)
      base == DealBaseQuery(f)
      key == [d \in base |-> DealSortKey(f, d)]
  IN \E seq \in Orderings(base, key, DealSortDesc(f)) :
       LET rows == PageOf(seq, f.page, f.limit)
           ids == {rows[i] : i \in DOMAIN rows}
           userId == optionalAuth(q.authorization)
           bookmarkedIds == DealBookmarks(userId, ids, userFavoriteDeals)
       IN /\ resp' = [op |-> "searchDeals", impl |-> "search.ts", query |-> q,
                      filters |-> f, code |-> 200, userId |-> userId,
                      reads |-> BookmarkReads(userId, ids, "userFavoriteDeals"),
                      items |-> [i \in DOMAIN rows |->
                                   DealItem(rows[i],
                                            DistanceCol(f.latitude, f.longitude,
                                                        deals[rows[i]].restaurantId),
                                            bookmarkedIds)],
                      pagination |-> Pagination(f, Cardinality(base))]
          /\ UNCHANGED <<store, today, others>>

\* ------------------------------------- the search routes of unnamed/part_004
\* parseSearchFilters: the ids, the names, page and limit, the sort
parseSearchFilters(q) ==
  LET sortBy == IF q.sortBy \in {"rating", "distance"} THEN q.sortBy ELSE "relevance"
  IN [cuisineIds |-> q.cuisineIds,
      cuisineNames |-> q.cuisine,
      dietaryPreferenceIds |-> q.dietaryPreferenceIds,
      dietaryPreferenceNames |-> q.dietaryPreference,
      distanceKm |-> IF q.distance # Undefined /\ Get(q.distance) > 0 THEN q.distance
                     ELSE Undefined,
      latitude |-> q.latitude,
      longitude |-> q.longitude,
      hasActiveDeals |-> q.hasActiveDeals,
      page |-> IF q.page > 0 THEN q.page ELSE 1,
      limit |-> Min(Max(1, q.limit), 100),
      sortBy |-> sortBy,
      sortOrder |-> IF q.sortOrder \in {"asc", "desc"} THEN q.sortOrder
                    ELSE IF sortBy \in {"rating", "relevance"} THEN "desc" ELSE "asc"]

\* select id from cuisines where name in names
CuisineIdsNamed(names) == {c.id : c \in {x \in cuisines : x.name \in names}}

\* select id from dietary_preferences where name in names
DietaryIdsNamed(names) == {c.id : c \in {x \in dietaryPreferences : x.name \in names}}

\* hydrateSearchFilters: names are looked up only when no id was given
hydrateSearchFilters(raw) ==
  [cuisineIds |-> IF raw.cuisineIds = {} /\ raw.cuisineNames # {}
                  THEN CuisineIdsNamed(raw.cuisineNames) ELSE raw.cuisineIds,
   dietaryPreferenceIds |-> IF raw.dietaryPreferenceIds = {} /\ raw.dietaryPreferenceNames # {}
                            THEN DietaryIdsNamed(raw.dietaryPreferenceNames)
                            ELSE raw.dietaryPreferenceIds,
   distanceKm |-> raw.distanceKm,
   latitude |-> raw.latitude,
   longitude |-> raw.longitude,
   hasActiveDeals |-> raw.hasActiveDeals,
   page |-> raw.page,
   limit |-> raw.limit,
   sortBy |-> raw.sortBy,
   sortOrder |-> raw.sortOrder]

\* a nullable list of ids
Null == [null |-> TRUE, ids |-> {}]
Ids(S) == [null |-> FALSE, ids |-> S]

\* intersectIds(current, next)
intersectIds(current, next) ==
  IF current.null THEN Ids(next) ELSE Ids(current.ids \cap next)

\* createEmptyResult(filters)
createEmptyResult(f) ==
  [items |-> <<>>,
   reads |-> {},
   pagination |-> [currentPage |-> f.page, totalPages |-> 1, totalCount |-> 0,
                   hasNextPage |-> FALSE, hasPreviousPage |-> f.page > 1]]

\* selectDistinct dealId from deal_cuisines where cuisineId in ids
CuisineMatches(ids) == {e[1] : e \in {x \in dealCuisines : x[2] \in ids}}

\* selectDistinct dealId from deal_dietary_preferences where dietaryPreferenceId in ids
DietaryMatches(ids) == {e[1] : e \in {x \in dealDietaryPreferences : x[2] \in ids}}

\* whereConditions of getDealSearchResults
DealWhere(f, d, filteredDealIds) ==
  /\ deals[d].status = "active"
  /\ (~filteredDealIds.null /\ filteredDealIds.ids # {}) => d \in filteredDealIds.ids
  /\ (f.latitude # Undefined /\ f.longitude # Undefined /\ f.distanceKm # Undefined)
       => /\ DistanceCol(f.latitude, f.longitude, deals[d].restaurantId) # {}
          /\ Get(DistanceCol(f.latitude, f.longitude, deals[d].restaurantId)) <= Get(f.distanceKm)

\* dealQuery: deals inner join restaurants inner join partners where whereConditions
DealQueryRows(f, filteredDealIds) ==
  {d \in DOMAIN deals : /\ deals[d].restaurantId \in DOMAIN restaurants
                        /\ deals[d].partnerId \in PartnerIds
                        /\ DealWhere(f, d, filteredDealIds)}

\* a count query that leaves out whereConditions
DealCountQuery_NoWhere(f, filteredDealIds) ==
  Cardinality({d \in DOMAIN deals : deals[d].restaurantId \in DOMAIN restaurants})

\* dealCountQuery: count(*) from deals inner join restaurants where whereConditions
DealCountQuery(f, filteredDealIds) ==
  Cardinality({d \in DOMAIN deals : /\ deals[d].restaurantId \in DOMAIN restaurants
                                    /\ DealWhere(f, d, filteredDealIds)})

\* orderByClause of getDealSearchResults: rating, distance when distanceExpr is not
\* null, deals.createdAt otherwise
DealOrderKey(f, d) ==
  CASE f.sortBy = "rating" -> restaurants[deals[d].restaurantId].ratingAvg
    [] f.sortBy = "distance" /\ f.latitude # Undefined /\ f.longitude # Undefined ->
         DistanceSortKey(f.latitude, f.longitude, deals[d].restaurantId)
    [] OTHER -> d

DealOrderDesc(f) == f.sortOrder # "asc"

\* getDealSearchResults(filters) after its two facet steps found candidates
DealSearchPage(f, filteredDealIds, seq, userId) ==
  LET rows == PageOf(seq, f.page, f.limit)
      ids == {rows[i] : i \in DOMAIN rows}
      bookmarkedDealIds == DealBookmarks(userId, ids, userFavoriteDeals)
      totalCount == DealCountQuery(f, filteredDealIds)
      totalPages == Max(1, Ceil(totalCount, f.limit))
  IN [items |-> [i \in DOMAIN rows |->
                   DealItem(rows[i],
                            DistanceCol(f.latitude, f.longitude, deals[rows[i]].restaurantId),
                            bookmarkedDealIds)],
      reads |-> BookmarkReads(userId, ids, "userFavoriteDeals"),
      pagination |-> [currentPage |-> f.page, totalPages |-> totalPages,
                      totalCount |-> totalCount,
                      hasNextPage |-> f.page < totalPages,
                      hasPreviousPage |-> f.page > 1]]

\* filteredDealIds after the cuisine step and after the dietary step
AfterCuisine(f) ==
  IF f.cuisineIds # {} THEN intersectIds(Null, CuisineMatches(f.cuisineIds)) ELSE Null

FilteredDealIds(f) ==
  IF f.dietaryPreferenceIds # {}
  THEN intersectIds(AfterCuisine(f), DietaryMatches(f.dietaryPreferenceIds))
  ELSE AfterCuisine(f)

\* either step left filteredDealIds empty: return createEmptyResult(filters)
FacetStepEmpty(f) ==
  \/ f.cuisineIds # {} /\ AfterCuisine(f).ids = {}
  \/ f.dietaryPreferenceIds # {} /\ FilteredDealIds(f).ids = {}

\* GET /search of part_004 for deals: parse, hydrate, getDealSearchResults
getDealSearchResults(q) ==
  LET f == hydrateSearchFilters(parseSearchFilters(q))
      userId == optionalAuth(q.authorization)
      key == [d \in DealQueryRows(f, FilteredDealIds(f)) |-> DealOrderKey(f, d)]
  IN \E seq \in Orderings(DealQueryRows(f, FilteredDealIds(f)), key, DealOrderDesc(f)) :
       LET result == IF FacetStepEmpty(f) THEN createEmptyResult(f)
                     ELSE DealSearchPage(f, FilteredDealIds(f), seq, userId)
       IN /\ resp' = [op |-> "searchDeals", impl |-> "part_004", query |-> q,
                      filters |-> f, code |-> 200, userId |-> userId,
                      reads |-> result.reads,
                      items |-> result.items, pagination |-> result.pagination]
          /\ UNCHANGED <<store, today, others>>

\* the checks of router.get("/") on the raw filters, in the order of the code; the
\* message of the first that fails
LocationError(raw) ==
  CASE (raw.latitude = Undefined) # (raw.longitude = Undefined) ->
         <<"Both latitude and longitude are required for location-based search">>
    [] raw.latitude # Undefined /\ (Get(raw.latitude) < 0 - 90 \/ Get(raw.latitude) > 90) ->
         <<"Latitude must be between -90 and 90">>
    [] raw.longitude # Undefined /\ (Get(raw.longitude) < 0 - 180 \/ Get(raw.longitude) > 180) ->
         <<"Longitude must be between -180 and 180">>
    [] raw.distanceKm # Undefined /\ raw.latitude = Undefined ->
         <<"Distance filtering requires both latitude and longitude">>
    [] OTHER -> <<>>

\* router.get("/") for showType deals: 400 before any query when a check fails
SearchRoute(q) ==
  IF LocationError(parseSearchFilters(q)) # <<>>
  THEN /\ resp' = [op |-> "badRequest", impl |-> "part_004", query |-> q, code |-> 400,
                   error |-> LocationError(parseSearchFilters(q)), reads |-> {},
                   queried |-> FALSE]
       /\ UNCHANGED <<store, today, others>>
  ELSE getDealSearchResults(q)

\* -------------------------------------------------- the lifecycle system
\* request bodies the partner sends in this system
BodyRestaurantIds == {1}
BodyCuisineIds == {{}}
BodyDietaryIds == {{}}

InitRestaurants ==
  [r \in RestaurantIds |-> [isActive |-> TRUE, partnerId |-> 1, ratingAvg |-> 4, createdAt |-> r,
                             latitude |-> {0}, longitude |-> {0}]]

Init ==
  /\ deals = [d \in {} |-> 0]
  /\ nextDealId = 1
  /\ dealCuisines = {}
  /\ dealDietaryPreferences = {}
  /\ restaurants = InitRestaurants
  /\ today = 1
  /\ resp = [op |-> "start"]
  /\ userFavoriteRestaurants = {}
  /\ userFavoriteDeals = {}
  /\ requests = <<>>
  /\ notifications = {}
  /\ jobRuns = <<>>

Next ==
  \/ \E r \in BodyRestaurantIds, s \in Dates, e \in Dates, cs \in BodyCuisineIds, dp \in BodyDietaryIds :
       CreateDeal(r, s, e, cs, dp)
  \/ \E d \in DealIds, s \in Optional(Dates), e \in Optional(Dates),
        cs \in Optional(BodyCuisineIds), dp \in Optional(BodyDietaryIds) :
       UpdateDeal(d, s, e, cs, dp)
  \/ \E d \in DealIds, status \in BodyStatuses : UpdateDealStatus(d, status)
  \/ \E d \in DealIds : DeleteDeal(d)
  \/ manageDealStatuses
  \/ AdvanceDay

Spec == Init /\ [][Next]_vars

\* deals that are created and then left to the job: no edit, no status request
NextUntouched ==
  \/ \E r \in BodyRestaurantIds, s \in Dates, e \in Dates, cs \in BodyCuisineIds, dp \in BodyDietaryIds :
       CreateDeal(r, s, e, cs, dp)
  \/ manageDealStatuses
  \/ AdvanceDay

SpecUntouched == Init /\ [][NextUntouched]_vars

\* deals created with facet edges at a restaurant that users follow, then deleted
InitDelete ==
  /\ deals = [d \in {} |-> 0]
  /\ nextDealId = 1
  /\ dealCuisines = {}
  /\ dealDietaryPreferences = {}
  /\ restaurants = InitRestaurants
  /\ today = 1
  /\ resp = [op |-> "start"]
  /\ userFavoriteRestaurants \in
       {{}} \cup {{[id |-> 1, userId |-> "user_1", restaurantId |-> 1, notifyOnDeal |-> n]} :
                  n \in BOOLEAN}
  /\ userFavoriteDeals = {}
  /\ requests = <<>>
  /\ notifications = {}
  /\ jobRuns = <<>>

NextDelete ==
  \/ \E r \in RestaurantIds, s \in Dates, e \in Dates, cs \in SUBSET {1}, dp \in SUBSET {1} :
       CreateDeal(r, s, e, cs, dp)
  \/ \E d \in DealIds, status \in validStatuses : UpdateDealStatus(d, status)
  \/ \E d \in DealIds : DeleteDeal(d)

SpecDelete == InitDelete /\ [][NextDelete]_vars

\* ---------------------------------- the job, one database statement a step
\* the calls of manageDealStatuses that can be in flight: run 1 is the call made by
\* startDealStatusJob at start-up, the others are calls made by the hourly tick
MaxRuns == 2
RunIds == 1..MaxRuns

\* the three awaited updates of one call, in order
JobPhases == <<"draftToActive", "activeToExpired", "expiredToActive">>

PhaseIndex(pc) == CHOOSE i \in DOMAIN JobPhases : JobPhases[i] = pc

InProgress(run) == \E i \in DOMAIN JobPhases : JobPhases[i] = run.pc

RunsInProgress == {k \in DOMAIN jobRuns : InProgress(jobRuns[k])}

\* an unhandled rejection has ended the process
Crashed == \E k \in DOMAIN jobRuns : jobRuns[k].pc = "crashed"

IdleRun ==
  [pc |-> "idle", stats |-> [draftToActive |-> 0, activeToExpired |-> 0, expiredToActive |-> 0],
   startedIn |-> {}, day |-> 0, overlapped |-> FALSE, retryOf |-> {}]

\* a tick that rejects is left without a handler
CatchesRejection_StartupOnly(k) == k = 1

\* manageDealStatuses().catch(...) of the start-up call and of the scheduled call
CatchesRejection(k) == k \in RunIds

\* the rows the where clause of a phase selects
PhaseRows(pc, ds, t) ==
  CASE pc = "draftToActive" -> DraftToActiveRows(ds, t)
    [] pc = "activeToExpired" -> ActiveToExpiredRows(ds, t)
    [] OTHER -> ExpiredToActiveRows(ds, t)

PhaseTarget(pc) == IF pc = "activeToExpired" THEN "expired" ELSE "active"

\* startDealStatusJob calls manageDealStatuses at start-up, cron.schedule calls it at
\* every tick; neither looks whether another call is still running. The run notes
\* the store it started in and whether it starts right after a failed run.
StartRun(k) ==
  /\ ~Crashed
  /\ ~InProgress(jobRuns[k])
  /\ k = 1 => jobRuns[k].pc = "idle"
  /\ jobRuns' = [j \in RunIds |->
       IF j = k
       THEN [IdleRun EXCEPT !.pc = JobPhases[1], !.startedIn = {deals}, !.day = today,
                            !.overlapped = RunsInProgress # {},
                            !.retryOf = IF resp.op = "jobFailed" /\ RunsInProgress = {}
                                        THEN {resp.failed} ELSE {}]
       ELSE IF InProgress(jobRuns[j]) THEN [jobRuns[j] EXCEPT !.overlapped = TRUE]
       ELSE jobRuns[j]]
  /\ resp' = [op |-> "jobStart", run |-> k]
  /\ UNCHANGED <<store, today, notifications, userFavoriteRestaurants, userFavoriteDeals, requests>>

\* one awaited db.update(deals)...returning() of a call, and after the third the
\* summary the call logs
RunPhase(k) ==
  /\ ~Crashed
  /\ InProgress(jobRuns[k])
  /\ LET pc == jobRuns[k].pc
         rows == PhaseRows(pc, deals, today)
         stats == [jobRuns[k].stats EXCEPT ![pc] = Cardinality(rows)]
         last == PhaseIndex(pc) = Len(JobPhases)
     IN /\ deals' = SetStatus(deals, rows, PhaseTarget(pc))
        /\ jobRuns' = [jobRuns EXCEPT ![k].stats = stats,
                                      ![k].pc = IF last THEN "done" ELSE JobPhases[PhaseIndex(pc) + 1]]
        /\ resp' = IF last
                   THEN [op |-> "jobDone", run |-> k, stats |-> stats,
                         startedIn |-> jobRuns[k].startedIn, day |-> jobRuns[k].day,
                         overlapped |-> jobRuns[k].overlapped, retryOf |-> jobRuns[k].retryOf]
                   ELSE [op |-> "jobPhase", run |-> k]
  /\ UNCHANGED <<nextDealId, dealCuisines, dealDietaryPreferences, restaurants, today, notifications,
                 userFavoriteRestaurants, userFavoriteDeals, requests>>

\* the awaited update of the current phase rejects: the statement changes no row, the
\* catch block logs and rethrows, and the caller's .catch logs again; a rejection
\* nobody catches ends the process
FailPhase(k) ==
  /\ ~Crashed
  /\ InProgress(jobRuns[k])
  /\ jobRuns' = IF CatchesRejection(k)
                THEN [jobRuns EXCEPT ![k].pc = "failed"]
                ELSE [j \in RunIds |-> [jobRuns[j] EXCEPT !.pc = "crashed"]]
  /\ resp' = [op |-> "jobFailed", run |-> k, phase |-> jobRuns[k].pc,
              logged |-> <<"Error in manageDealStatuses job">>,
              failed |-> [startedIn |-> jobRuns[k].startedIn, day |-> jobRuns[k].day,
                          overlapped |-> jobRuns[k].overlapped]]
  /\ UNCHANGED <<store, today, notifications, userFavoriteRestaurants, userFavoriteDeals, requests>>

\* stores the partner routes can leave behind for the job
JobDeals ==
  {ds \in [DealIds -> [status : dealStatusEnum, startDate : Dates, endDate : Dates,
                       restaurantId : {1}, partnerId : PartnerIds]] :
     \A d \in DealIds :
       /\ ds[d].startDate <= ds[d].endDate
       /\ d > 1 => ds[d].startDate = 1 /\ ds[d].endDate = 2}

InitJob ==
  /\ deals \in JobDeals
  /\ nextDealId = MaxDeals + 1
  /\ dealCuisines = {}
  /\ dealDietaryPreferences = {}
  /\ restaurants = InitRestaurants
  /\ today = 1
  /\ resp = [op |-> "start"]
  /\ userFavoriteRestaurants = {}
  /\ userFavoriteDeals = {}
  /\ requests = <<>>
  /\ notifications = {}
  /\ jobRuns = [k \in RunIds |-> IdleRun]

NextJob ==
  \/ \E k \in RunIds : StartRun(k)
  \/ \E k \in RunIds : RunPhase(k)
  \/ \E k \in RunIds : FailPhase(k)
  \/ ~Crashed /\ AdvanceDay

SpecJob == InitJob /\ [][NextJob]_vars

\* the response has been sent; the server takes the next request
Respond ==
  /\ resp.op # "start"
  /\ resp' = [op |-> "start"]
  /\ UNCHANGED <<store, today, others>>

\* ------------------------------------------------- the phases in any order
\* the six orders of the three updates
PhaseOrders ==
  {o \in [1..3 -> {JobPhases[i] : i \in 1..3}] : \A i, j \in 1..3 : o[i] = o[j] => i = j}

\* one update of the run applied to a store
PhaseApplied(pc, ds, t) == SetStatus(ds, PhaseRows(pc, ds, t), PhaseTarget(pc))

\* the three updates of a run applied in the order o, with the rows each one moved
ApplyPhases(o) ==
  LET d1 == PhaseApplied(o[1], deals, today)
      d2 == PhaseApplied(o[2], d1, today)
      d3 == PhaseApplied(o[3], d2, today)
  IN /\ deals' = d3
     /\ resp' = [op |-> "phases", order |-> o, before |-> deals,
                 moved |-> <<PhaseRows(o[1], deals, today), PhaseRows(o[2], d1, today),
                             PhaseRows(o[3], d2, today)>>]
     /\ UNCHANGED <<nextDealId, dealCuisines, dealDietaryPreferences, restaurants, today, others>>

\* every store the routes can leave behind: any status and any dates, also a start
\* after the end
InitOrder ==
  /\ deals \in [DealIds -> [status : dealStatusEnum, startDate : 1..MaxDay, endDate : 1..MaxDay,
                             restaurantId : {1}, partnerId : {1}]]
  /\ nextDealId = MaxDeals + 1
  /\ dealCuisines = {}
  /\ dealDietaryPreferences = {}
  /\ restaurants = InitRestaurants
  /\ today \in 1..MaxDay
  /\ resp = [op |-> "start"]
  /\ userFavoriteRestaurants = {}
  /\ userFavoriteDeals = {}
  /\ jobRuns = <<>>
  /\ requests = <<>>
  /\ notifications = {}

NextOrder ==
  \/ resp.op = "start" /\ \E o \in PhaseOrders : ApplyPhases(o)
  \/ Respond

SpecOrder == InitOrder /\ [][NextOrder]_vars

\* ------------------------------------------------------ the bookmark routes
MaxRequests == 2
RequestIds == 1..MaxRequests

IdleRequest == [pc |-> "idle"]

\* the (user, target) pair of a bookmark row of either table
PairOf(kind, row) ==
  IF kind = "favoriteDeal" THEN <<row.userId, row.dealId>>
  ELSE <<row.userId, row.restaurantId>>

TableOf(kind) == IF kind = "favoriteDeal" THEN userFavoriteDeals ELSE userFavoriteRestaurants

\* select ... where userId = u and target = x
RowsOfPair(kind, u, x) == {row \in TableOf(kind) : PairOf(kind, row) = <<u, x>>}

UniqueIndex_Dropped(kind, u, x) == FALSE

\* uniq_user_favorite_deal / uniq_user_favorite_restaurant: an insert of a pair that
\* has a row fails
UniqueIndex(kind, u, x) == RowsOfPair(kind, u, x) # {}

\* generatedAlwaysAsIdentity: an id no row has, here the least one
NewRowId(rows) ==
  CHOOSE i \in 1..(Cardinality(rows) + 1) :
    /\ \A row \in rows : row.id # i
    /\ \A j \in 1..(i - 1) : \E row \in rows : row.id = j

\* the handler's error: logged by executeWithErrorHandling, answered 500 with the
\* route's message
BookmarkFailed(k, logged) ==
  /\ resp' = [op |-> requests[k].kind, code |-> 500,
              userId |-> requests[k].userId, target |-> requests[k].target,
              existed |-> requests[k].existed, logged |-> logged]
  /\ requests' = [requests EXCEPT ![k] = IdleRequest]

\* POST /deals/:dealId/favorite and POST /notifications/restaurants/:id/bookmark arrive
StartBookmark(k, kind, u, x, notifyOnDeal) ==
  /\ requests[k].pc = "idle"
  /\ requests' = [requests EXCEPT ![k] =
                    [pc |-> "checkTarget", kind |-> kind, userId |-> u, target |-> x,
                     notifyOnDeal |-> notifyOnDeal, existed |-> FALSE]]
  /\ resp' = [op |-> "step"]
  /\ UNCHANGED <<store, today, notifications, userFavoriteRestaurants, userFavoriteDeals, jobRuns>>

\* "Check if deal exists and is active" / "Check if restaurant exists and is active"
CheckTarget(k) ==
  /\ requests[k].pc = "checkTarget"
  /\ LET x == requests[k].target
     IN IF requests[k].kind = "favoriteDeal"
        THEN IF x \notin DOMAIN deals THEN BookmarkFailed(k, <<"Deal not found">>)
             ELSE IF deals[x].status # "active"
             THEN BookmarkFailed(k, <<"Deal is not currently active">>)
             ELSE /\ requests' = [requests EXCEPT ![k].pc = "checkExisting"]
                  /\ resp' = [op |-> "step"]
        ELSE IF x \notin DOMAIN restaurants \/ ~restaurants[x].isActive
             THEN BookmarkFailed(k, <<"Restaurant not found or inactive">>)
             ELSE /\ requests' = [requests EXCEPT ![k].pc = "checkExisting"]
                  /\ resp' = [op |-> "step"]
  /\ UNCHANGED <<store, today, notifications, userFavoriteRestaurants, userFavoriteDeals, jobRuns>>

\* "Check if already bookmarked": the deal route throws, the restaurant route goes on
\* to update
CheckExisting(k) ==
  /\ requests[k].pc = "checkExisting"
  /\ LET r == requests[k]
         existing == RowsOfPair(r.kind, r.userId, r.target)
     IN IF existing = {}
        THEN /\ requests' = [requests EXCEPT ![k].pc = "insert"]
             /\ resp' = [op |-> "step"]
        ELSE IF r.kind = "favoriteDeal"
        THEN /\ resp' = [op |-> r.kind, code |-> 500, userId |-> r.userId,
                         target |-> r.target, existed |-> TRUE,
                         logged |-> <<"Deal is already bookmarked">>]
             /\ requests' = [requests EXCEPT ![k] = IdleRequest]
        ELSE /\ requests' = [requests EXCEPT ![k].pc = "update", ![k].existed = TRUE]
             /\ resp' = [op |-> "step"]
  /\ UNCHANGED <<store, today, notifications, userFavoriteRestaurants, userFavoriteDeals, jobRuns>>

\* db.insert(userFavoriteDeals / userFavoriteRestaurants): 201, or the unique index
\* refuses the row
InsertBookmark(k) ==
  /\ requests[k].pc = "insert"
  /\ LET r == requests[k]
     IN IF UniqueIndex(r.kind, r.userId, r.target)
        THEN /\ BookmarkFailed(k, <<"duplicate key value violates unique constraint">>)
             /\ UNCHANGED <<userFavoriteRestaurants, userFavoriteDeals>>
        ELSE /\ IF r.kind = "favoriteDeal"
                THEN /\ userFavoriteDeals' = userFavoriteDeals \cup
                          {[id |-> NewRowId(userFavoriteDeals), userId |-> r.userId,
                            dealId |-> r.target]}
                     /\ UNCHANGED userFavoriteRestaurants
                ELSE /\ userFavoriteRestaurants' = userFavoriteRestaurants \cup
                          {[id |-> NewRowId(userFavoriteRestaurants), userId |-> r.userId,
                            restaurantId |-> r.target, notifyOnDeal |-> r.notifyOnDeal]}
                     /\ UNCHANGED userFavoriteDeals
             /\ resp' = [op |-> r.kind, code |-> 201, userId |-> r.userId,
                         target |-> r.target, existed |-> FALSE, logged |-> <<>>]
             /\ requests' = [requests EXCEPT ![k] = IdleRequest]
  /\ UNCHANGED <<store, today, notifications, jobRuns>>

\* "Update existing bookmark": set notifyOnDeal on the rows of the pair, 200
UpdateBookmark(k) ==
  /\ requests[k].pc = "update"
  /\ LET r == requests[k]
     IN /\ userFavoriteRestaurants' =
             {IF PairOf(r.kind, row) = <<r.userId, r.target>>
              THEN [row EXCEPT !.notifyOnDeal = r.notifyOnDeal] ELSE row :
                row \in userFavoriteRestaurants}
        /\ resp' = [op |-> r.kind, code |-> 200, userId |-> r.userId,
                    target |-> r.target, existed |-> TRUE, logged |-> <<>>]
        /\ requests' = [requests EXCEPT ![k] = IdleRequest]
  /\ UNCHANGED <<store, today, notifications, userFavoriteDeals, jobRuns>>

\* DELETE /deals/:dealId/favorite and DELETE /notifications/restaurants/:id/bookmark:
\* one delete statement
RemoveBookmark(kind, u, x) ==
  /\ IF kind = "favoriteDeal"
     THEN /\ userFavoriteDeals' = userFavoriteDeals \ RowsOfPair(kind, u, x)
          /\ UNCHANGED userFavoriteRestaurants
     ELSE /\ userFavoriteRestaurants' = userFavoriteRestaurants \ RowsOfPair(kind, u, x)
          /\ UNCHANGED userFavoriteDeals
  /\ resp' = [op |-> "remove", kind |-> kind, code |-> 200, userId |-> u, target |-> x]
  /\ UNCHANGED <<store, today, notifications, jobRuns, requests>>

\* deal 1 is active, the other deals drafts; restaurant 1 is active, restaurant 2 not
InitBookmark ==
  /\ deals = [d \in DealIds |-> [status |-> IF d = 1 THEN "active" ELSE "draft",
                                 startDate |-> 1, endDate |-> MaxDay,
                                 restaurantId |-> 1, partnerId |-> 1]]
  /\ nextDealId = MaxDeals + 1
  /\ dealCuisines = {}
  /\ dealDietaryPreferences = {}
  /\ restaurants = [InitRestaurants EXCEPT ![2].isActive = FALSE]
  /\ today = 1
  /\ resp = [op |-> "start"]
  /\ userFavoriteRestaurants = {}
  /\ userFavoriteDeals = {}
  /\ jobRuns = <<>>
  /\ requests = [k \in RequestIds |-> IdleRequest]
  /\ notifications = {}

BookmarkKinds == {"favoriteDeal", "bookmarkRestaurant"}

NextBookmark ==
  \/ \E k \in RequestIds, kind \in BookmarkKinds, u \in UserIds, x \in 1..2, n \in BOOLEAN :
       StartBookmark(k, kind, u, x, n)
  \/ \E k \in RequestIds : CheckTarget(k)
  \/ \E k \in RequestIds : CheckExisting(k)
  \/ \E k \in RequestIds : InsertBookmark(k)
  \/ \E k \in RequestIds : UpdateBookmark(k)
  \/ \E kind \in BookmarkKinds, u \in UserIds, x \in 1..2 : RemoveBookmark(kind, u, x)

SpecBookmark == InitBookmark /\ [][NextBookmark]_vars

\* ------------------------------------- the partner routes statement by statement
\* PATCH /partner-deals/:dealId/status with a valid status arrives
StartPatch(k, d, status) ==
  /\ requests[k].pc = "idle"
  /\ requests' = [requests EXCEPT ![k] = [pc |-> "read", kind |-> "patch", dealId |-> d,
                                          status |-> status, endDate |-> 0]]
  /\ resp' = [op |-> "step"]
  /\ UNCHANGED <<store, today, notifications, userFavoriteRestaurants, userFavoriteDeals, jobRuns>>

\* PUT /partner-deals/:dealId with an endDate arrives
StartPut(k, d, e) ==
  /\ requests[k].pc = "idle"
  /\ requests' = [requests EXCEPT ![k] = [pc |-> "read", kind |-> "put", dealId |-> d,
                                          status |-> "", endDate |-> e]]
  /\ resp' = [op |-> "step"]
  /\ UNCHANGED <<store, today, notifications, userFavoriteRestaurants, userFavoriteDeals, jobRuns>>

\* the select of the deal and the checks on the row it returned: validTransitions
\* for PATCH, the archived check for PUT
ReadDeal(k) ==
  /\ requests[k].pc = "read"
  /\ LET r == requests[k]
         accepted == IF r.kind = "patch"
                     THEN r.status \in validTransitions(deals[r.dealId].status)
                     ELSE CanModify(deals[r.dealId])
     IN IF r.dealId \notin DOMAIN deals
        THEN /\ resp' = [op |-> r.kind, code |-> 404, dealId |-> r.dealId, wrote |-> FALSE]
             /\ requests' = [requests EXCEPT ![k] = IdleRequest]
        ELSE IF ~accepted
        THEN /\ resp' = [op |-> r.kind, code |-> 500, dealId |-> r.dealId, wrote |-> FALSE]
             /\ requests' = [requests EXCEPT ![k] = IdleRequest]
        ELSE /\ resp' = [op |-> "step"]
             /\ requests' = [requests EXCEPT ![k].pc = "write"]
  /\ UNCHANGED <<store, today, notifications, userFavoriteRestaurants, userFavoriteDeals, jobRuns>>

\* db.update(deals).set(...).where(eq(deals.id, dealId)): the row is written
\* whatever its status is by now
WriteDeal(k) ==
  /\ requests[k].pc = "write"
  /\ LET r == requests[k]
     IN /\ deals' = [deals EXCEPT ![r.dealId] =
                       IF r.kind = "patch" THEN [@ EXCEPT !.status = r.status]
                       ELSE [@ EXCEPT !.endDate = r.endDate]]
        /\ resp' = [op |-> r.kind, code |-> 200, dealId |-> r.dealId, wrote |-> TRUE]
        /\ requests' = [requests EXCEPT ![k] = IdleRequest]
  /\ UNCHANGED <<nextDealId, dealCuisines, dealDietaryPreferences, restaurants, today, notifications,
                 userFavoriteRestaurants, userFavoriteDeals, jobRuns>>

\* a call of manageDealStatuses begins, while requests are in flight
StartSweep(k) ==
  /\ requests[k].pc = "idle"
  /\ requests' = [requests EXCEPT ![k] = [pc |-> JobPhases[1], kind |-> "sweep", dealId |-> 0,
                                          status |-> "", endDate |-> 0]]
  /\ resp' = [op |-> "step"]
  /\ UNCHANGED <<store, today, notifications, userFavoriteRestaurants, userFavoriteDeals, jobRuns>>

\* the next of the three awaited updates of the call: one statement
SweepPhase(k) ==
  /\ requests[k].pc \in {JobPhases[i] : i \in 1..3}
  /\ deals' = PhaseApplied(requests[k].pc, deals, today)
  /\ requests' = [requests EXCEPT ![k] =
                    IF requests[k].pc = JobPhases[3] THEN IdleRequest
                    ELSE [@ EXCEPT !.pc = JobPhases[PhaseIndex(requests[k].pc) + 1]]]
  /\ resp' = [op |-> "sweepPhase"]
  /\ UNCHANGED <<nextDealId, dealCuisines, dealDietaryPreferences, restaurants, today, notifications,
                 userFavoriteRestaurants, userFavoriteDeals, jobRuns>>

\* deals of any status; the job can start at any time
InitRace ==
  /\ deals \in [DealIds -> [status : dealStatusEnum, startDate : {1}, endDate : {1, MaxDay},
                             restaurantId : {1}, partnerId : {1}]]
  /\ nextDealId = MaxDeals + 1
  /\ dealCuisines = {}
  /\ dealDietaryPreferences = {}
  /\ restaurants = InitRestaurants
  /\ today = 2
  /\ resp = [op |-> "start"]
  /\ userFavoriteRestaurants = {}
  /\ userFavoriteDeals = {}
  /\ jobRuns = <<>>
  /\ requests = [k \in RequestIds |-> IdleRequest]
  /\ notifications = {}

NextRace ==
  \/ \E k \in RequestIds, d \in DealIds, status \in validStatuses : StartPatch(k, d, status)
  \/ \E k \in RequestIds, d \in DealIds : StartPut(k, d, MaxDay)
  \/ \E k \in RequestIds : ReadDeal(k)
  \/ \E k \in RequestIds : WriteDeal(k)
  \/ \E k \in RequestIds : StartSweep(k)
  \/ \E k \in RequestIds : SweepPhase(k)

SpecRace == InitRace /\ [][NextRace]_vars

\* -------------------------------------------------- the discovery system
\* stores the partner routes and the job can leave behind: every deal in any status,
\* at either restaurant, with any facet edges; restaurants active or not
SearchDeals ==
  {ds \in [DealIds -> [status : dealStatusEnum, startDate : {1}, endDate : {MaxDay},
                       restaurantId : RestaurantIds, partnerId : PartnerIds]] :
     ds[1].restaurantId = 1}

SearchRestaurants ==
  {rs \in [RestaurantIds -> [isActive : BOOLEAN, partnerId : PartnerIds,
                             ratingAvg : {4}, createdAt : RestaurantIds,
                             latitude : {{0}}, longitude : {{0}}]] :
     /\ \A r \in RestaurantIds : rs[r].createdAt = r
     /\ rs[2].isActive}

InitSearch ==
  /\ deals \in SearchDeals
  /\ nextDealId = MaxDeals + 1
  /\ dealCuisines \in SUBSET (DealIds \X CuisineIds)
  /\ dealDietaryPreferences \in SUBSET (DealIds \X DietaryIds)
  /\ restaurants \in SearchRestaurants
  /\ today = 1
  /\ resp = [op |-> "start"]
  /\ userFavoriteRestaurants = {}
  /\ userFavoriteDeals = {}
  /\ requests = <<>>
  /\ notifications = {}
  /\ jobRuns = <<>>

\* query strings: the facet filters by id
Query(ci, cn, di, dn, had, page, limit, sortBy, sortOrder) ==
  [cuisineIds |-> ci, cuisine |-> cn, dietaryPreferenceIds |-> di, dietaryPreference |-> dn,
   hasActiveDeals |-> had, page |-> page, limit |-> limit, sortBy |-> sortBy,
   sortOrder |-> sortOrder, latitude |-> Undefined, longitude |-> Undefined,
   distance |-> Undefined, authorization |-> Undefined]

FacetQueries ==
  {Query(ci, {}, di, {}, had, page, MaxLimit, "", "") :
     ci \in SUBSET CuisineIds, di \in SUBSET DietaryIds, had \in BOOLEAN, page \in 1..MaxPage}

\* the facet filters by name, among them names no facet row has
NameQueries ==
  {Query({}, cn, di, dn, FALSE, page, MaxLimit, "", "") :
     cn \in {{"Italian"}, {"Klingon"}, {"Italian", "Klingon"}}, di \in SUBSET DietaryIds,
     dn \in {{}}, page \in 1..MaxPage}
  \cup {Query(ci, {}, {}, {"Keto"}, FALSE, page, MaxLimit, "", "") :
     ci \in {{}, {1}}, page \in 1..MaxPage}

\* no facet filter: pages, limits and sorts
PagingQueries ==
  {Query({}, {}, {}, {}, had, page, limit, sort[1], sort[2]) :
     had \in BOOLEAN, page \in 1..MaxPage, limit \in 1..MaxLimit,
     sort \in {<<"", "">>, <<"newest", "asc">>, <<"distance", "">>}}

Queries == FacetQueries \cup NameQueries \cup PagingQueries

DealQueries == {q \in Queries : ~q.hasActiveDeals}

\* one request at a time: a handler runs from the idle server
NextSearch ==
  \/ resp.op = "start" /\ \E q \in Queries : searchRestaurants(q)
  \/ resp.op = "start" /\ \E q \in DealQueries : searchDeals(q)
  \/ resp.op = "start" /\ \E q \in DealQueries : getDealSearchResults(q)
  \/ Respond

SpecSearch == InitSearch /\ [][NextSearch]_vars

\* ------------------------------------------- the location and sorting system
\* two active deals, one at each restaurant; the restaurants differ in where they
\* are, whether they have coordinates at all, and in rating
GeoRestaurants ==
  {rs \in [RestaurantIds -> [isActive : {TRUE}, partnerId : {1},
                             ratingAvg : {3, 4}, createdAt : RestaurantIds,
                             latitude : {{}, {0}, {1}, {2}}, longitude : {{}, {0}}]] :
     /\ \A r \in RestaurantIds : rs[r].createdAt = r
     /\ rs[1].latitude \in {{0}, {1}} /\ rs[1].longitude = {0}
     /\ rs[2].ratingAvg = 4}

InitGeo ==
  /\ deals = [d \in DealIds |-> [status |-> "active", startDate |-> 1, endDate |-> MaxDay,
                                 restaurantId |-> IF d = 1 THEN 1 ELSE 2, partnerId |-> 1]]
  /\ nextDealId = MaxDeals + 1
  /\ dealCuisines = {}
  /\ dealDietaryPreferences = {}
  /\ restaurants \in GeoRestaurants
  /\ today = 1
  /\ resp = [op |-> "start"]
  /\ userFavoriteRestaurants = {}
  /\ userFavoriteDeals = {}
  /\ requests = <<>>
  /\ notifications = {}
  /\ jobRuns = <<>>

\* query strings with latitude, longitude, radius, sortBy and sortOrder
GeoQuery(lat, lng, dist, sortBy, sortOrder) ==
  [Query({}, {}, {}, {}, FALSE, 1, MaxLimit, sortBy, sortOrder)
     EXCEPT !.latitude = lat, !.longitude = lng, !.distance = dist]

QueryLatitudes == {Undefined, {0}, {1}, {91}, {0 - 91}}
QueryRadii == {Undefined, {0}, {150}, {250}}
QuerySorts == {"", "rating", "distance", "newest", "relevance", "popular"}
QueryOrders == {"", "asc", "desc"}

GeoQueries ==
  {GeoQuery(lat, lng, dist, sortBy, sortOrder) :
     lat \in QueryLatitudes, lng \in {Undefined, {0}}, dist \in QueryRadii,
     sortBy \in QuerySorts, sortOrder \in QueryOrders}

\* the older route also meets longitudes off the map
RouteQueries ==
  GeoQueries \cup {GeoQuery(lat, {181}, dist, "", "") :
                     lat \in QueryLatitudes, dist \in QueryRadii}

NextGeo ==
  \/ resp.op = "start" /\ \E q \in GeoQueries : searchRestaurants(q)
  \/ resp.op = "start" /\ \E q \in GeoQueries : searchDeals(q)
  \/ resp.op = "start" /\ \E q \in RouteQueries : SearchRoute(q)
  \/ Respond

SpecGeo == InitGeo /\ [][NextGeo]_vars

\* ------------------------------------------------ the restaurant card system
\* a busy page: more deals than the card query fetches; the last three deals are
\* active or draft at either restaurant, the others active at restaurant 1
CardDealIds == 1..(ActiveDealsLimit + 1)

CardDeals ==
  {[d \in CardDealIds |->
      IF d < ActiveDealsLimit - 1
      THEN [status |-> "active", startDate |-> 1, endDate |-> MaxDay,
            restaurantId |-> 1, partnerId |-> 1]
      ELSE last[d]] :
     last \in [(ActiveDealsLimit - 1)..(ActiveDealsLimit + 1) ->
                [status : {"active", "draft"}, startDate : {1}, endDate : {MaxDay},
                 restaurantId : RestaurantIds, partnerId : {1}]]}

InitCard ==
  /\ deals \in CardDeals
  /\ nextDealId = ActiveDealsLimit + 2
  /\ dealCuisines \in {{}, {<<1, 1>>}}
  /\ dealDietaryPreferences = {}
  /\ restaurants = InitRestaurants
  /\ today = 1
  /\ resp = [op |-> "start"]
  /\ userFavoriteRestaurants = {}
  /\ userFavoriteDeals = {}
  /\ requests = <<>>
  /\ notifications = {}
  /\ jobRuns = <<>>

CardQueries ==
  {Query({}, {}, {}, {}, FALSE, page, limit, "", "") : page \in 1..MaxPage, limit \in 1..MaxLimit}

NextCard ==
  \/ resp.op = "start" /\ \E q \in CardQueries : searchRestaurants(q)
  \/ Respond

SpecCard == InitCard /\ [][NextCard]_vars

\* ------------------------------------------------------ browsing the pages
\* a client reads the result list one row a page: the same query string, page after
\* page, each page a request of its own with its own ORDER BY ... LIMIT ... OFFSET
PageQuery(lat, sortBy, sortOrder, page) ==
  [GeoQuery(lat, {0}, Undefined, sortBy, sortOrder) EXCEPT !.page = page, !.limit = 1]

PageQueries ==
  {PageQuery(lat, sortBy, sortOrder, page) :
     lat \in {Undefined, {1}}, sortBy \in {"", "rating", "distance", "newest"},
     sortOrder \in {"", "asc"}, page \in 1..MaxPage}

NextPages ==
  \/ \E q \in PageQueries : searchRestaurants(q)
  \/ \E q \in PageQueries : searchDeals(q)

SpecPages == InitGeo /\ [][NextPages]_vars

\* ------------------------------------------------ restaurants taken offline
\* PUT /partner/restaurants/:restaurantId by a partner: the owner's fields are
\* written, here isActive; the deals of the restaurant are not touched
UpdateRestaurant(partnerId, r, isActive) ==
  IF r \notin DOMAIN restaurants \/ restaurants[r].partnerId # partnerId
  THEN /\ resp' = [op |-> "putRestaurant", code |-> 500, restaurantId |-> r]
       /\ UNCHANGED <<store, today, others>>
  ELSE /\ restaurants' = [restaurants EXCEPT ![r].isActive =
                            IF isActive = Undefined THEN @ ELSE Get(isActive)]
       /\ resp' = [op |-> "putRestaurant", code |-> 200, restaurantId |-> r]
       /\ UNCHANGED <<deals, nextDealId, dealCuisines, dealDietaryPreferences, today, others>>

\* two active restaurants with a deal each, of any status
InitOffline ==
  /\ deals \in {[d \in DealIds |-> [status |-> st[d], startDate |-> 1, endDate |-> MaxDay,
                                     restaurantId |-> IF d = 1 THEN 1 ELSE 2, partnerId |-> 1]] :
                  st \in [DealIds -> dealStatusEnum]}
  /\ nextDealId = MaxDeals + 1
  /\ dealCuisines = {}
  /\ dealDietaryPreferences = {}
  /\ restaurants = InitRestaurants
  /\ today = 1
  /\ resp = [op |-> "start"]
  /\ userFavoriteRestaurants = {}
  /\ userFavoriteDeals = {}
  /\ jobRuns = <<>>
  /\ requests = <<>>
  /\ notifications = {}

NextOffline ==
  \/ resp.op = "start" /\ \E p \in PartnerIds, r \in RestaurantIds, a \in Optional(BOOLEAN) :
                             UpdateRestaurant(p, r, a)
  \/ resp.op = "start" /\ \E q \in CardQueries : searchRestaurants(q)
  \/ resp.op = "start" /\ \E q \in CardQueries : searchDeals(q)
  \/ resp.op = "start" /\ \E q \in CardQueries : SearchRoute(q)
  \/ Respond

SpecOffline == InitOffline /\ [][NextOffline]_vars

\* ----------------------------------------------------- the bookmark system
\* the identity of the bookmark row of a (user, target) pair
PairId(p) == IF p[1] = "user_1" THEN p[2] ELSE MaxDeals + p[2]

\* both deals active, any bookmark rows of the two users
InitViewer ==
  /\ deals = [d \in DealIds |-> [status |-> "active", startDate |-> 1, endDate |-> MaxDay,
                                 restaurantId |-> IF d = 1 THEN 1 ELSE 2, partnerId |-> 1]]
  /\ nextDealId = MaxDeals + 1
  /\ dealCuisines = {}
  /\ dealDietaryPreferences = {}
  /\ restaurants = InitRestaurants
  /\ today = 1
  /\ resp = [op |-> "start"]
  /\ userFavoriteRestaurants \in
       {{[id |-> PairId(p), userId |-> p[1], restaurantId |-> p[2], notifyOnDeal |-> FALSE] :
           p \in S} : S \in SUBSET (UserIds \X RestaurantIds)}
  /\ userFavoriteDeals \in
       {{[id |-> PairId(p), userId |-> p[1], dealId |-> p[2]] : p \in S} :
          S \in SUBSET (UserIds \X DealIds)}
  /\ requests = <<>>
  /\ notifications = {}
  /\ jobRuns = <<>>

\* Authorization headers: none, a token of each user, a token whose subject has no
\* users row, a token that does not verify
Authorizations == {Undefined, {"token_1"}, {"token_2"}, {"token_9"}, {"garbage"}}

ViewerQueries ==
  {[Query({}, {}, {}, {}, FALSE, page, limit, "", "") EXCEPT !.authorization = a] :
     a \in Authorizations, page \in 1..MaxPage, limit \in 1..MaxLimit}

NextViewer ==
  \/ resp.op = "start" /\ \E q \in ViewerQueries : searchRestaurants(q)
  \/ resp.op = "start" /\ \E q \in ViewerQueries : searchDeals(q)
  \/ resp.op = "start" /\ \E q \in ViewerQueries : SearchRoute(q)
  \/ Respond

SpecViewer == InitViewer /\ [][NextViewer]_vars

\* ------------------------------------------------------------ the lifecycle
InRange(row, t) == row.startDate <= t /\ t <= row.endDate

\* the status one run of the job is to leave a deal with
StatusAfterSweep(row, t) ==
  CASE row.status = "draft" /\ InRange(row, t) -> "active"
    [] row.status = "active" /\ row.endDate < t -> "expired"
    [] row.status = "expired" /\ InRange(row, t) -> "active"
    [] OTHER -> row.status

\* C2: one complete run of the job moves a draft deal in its date range to active, an
\* active deal past its end date to expired, an expired deal in its date range to
\* active, and leaves every other deal (every archived deal too) with its status
C2_SweepTransitions ==
  [][resp'.op = "sweep" =>
       /\ DOMAIN deals' = DOMAIN deals
       /\ \A d \in DOMAIN deals :
            deals'[d] = [deals[d] EXCEPT !.status = StatusAfterSweep(deals[d], today)]]_vars

\* a run that activated one deal and expired another
C2_Witness ==
  /\ resp.op = "sweep"
  /\ resp.stats.draftToActive = 1
  /\ resp.stats.activeToExpired = 1
  /\ \A d \in resp.activated : deals[d].status = "active"
  /\ \A d \in resp.expired : deals[d].status = "expired"

\* C3: once a deal is archived no run of the job, status request or edit request
\* changes its status again, whatever its dates
C3_ArchivedIsTerminal ==
  [][\A d \in DOMAIN deals :
       deals[d].status = "archived" =>
         d \in DOMAIN deals' /\ deals'[d].status = "archived"]_vars

\* the job has run over an archived deal whose date range holds today
C3_Witness ==
  /\ resp.op = "sweep"
  /\ \E d \in DOMAIN deals : deals[d].status = "archived" /\ InRange(deals[d], today)

\* the deals a deal-search without filters can return
DiscoverableDealIds ==
  DealBaseQuery(parseFilters(Query({}, {}, {}, {}, FALSE, 1, MaxLimit, "", "")))

\* C4: an expired deal that its partner edits into a date range holding today is set
\* to active by the next run of the job, and deal-search can return it again
C4_ExtendedDealReactivated ==
  [][(/\ resp.op = "put" /\ resp.code = 200
      /\ resp.dealId \in DOMAIN deals
      /\ deals[resp.dealId].status = "expired"
      /\ InRange(deals[resp.dealId], today)
      /\ resp'.op = "sweep")
     => (/\ deals'[resp.dealId].status = "active"
         /\ resp.dealId \in DiscoverableDealIds')]_vars

\* the job ran right after an accepted edit and reactivated the edited deal
C4_Witness ==
  /\ resp.op = "sweep"
  /\ resp.after.op = "put" /\ resp.after.code = 200
  /\ resp.after.dealId \in resp.reactivated
  /\ deals[resp.after.dealId].status = "active"
  /\ resp.after.dealId \in DiscoverableDealIds

\* C5: a second run of the job right after a first one, on the same date and with no
\* write in between, moves no deal: its three counts are zero and no status changes
C5_SecondSweepMovesNothing ==
  [][(resp.op = "sweep" /\ resp'.op = "sweep") =>
       /\ deals' = deals
       /\ resp'.stats = [draftToActive |-> 0, activeToExpired |-> 0, expiredToActive |-> 0]]_vars

\* a second run right after a first run that moved deals
C5_Witness ==
  /\ resp.op = "sweep"
  /\ resp.after.op = "sweep"
  /\ resp.after.moved > 0

\* --------------------------------------------------------------- discovery
IsSearch == resp.op \in {"searchRestaurants", "searchDeals"}

ItemIds == {resp.items[i].id : i \in DOMAIN resp.items}

\* C1: a restaurant search returns only restaurants with isActive true, a deal search
\* only deals with status active, and the activeDeals of a returned restaurant hold
\* only deals with status active
C1_OnlyActiveReturned ==
  IsSearch =>
    \A i \in DOMAIN resp.items :
      IF resp.op = "searchRestaurants"
      THEN /\ resp.items[i].isActive
           /\ restaurants[resp.items[i].id].isActive
           /\ \A x \in resp.items[i].activeDeals : deals[x.id].status = "active"
      ELSE /\ resp.items[i].status = "active"
           /\ deals[resp.items[i].id].status = "active"

\* a restaurant came back with its active deal while the other restaurant is
\* deactivated and the other deal is not active
C1_Witness ==
  /\ resp.op = "searchRestaurants"
  /\ \E i \in DOMAIN resp.items : resp.items[i].activeDeals # {}
  /\ \E r \in DOMAIN restaurants : ~restaurants[r].isActive /\ r \notin ItemIds
  /\ \E d \in DOMAIN deals : deals[d].status # "active"

C7_TotalPages ==
  IsSearch =>
    /\ resp.pagination.totalPages = Max(1, Ceil(resp.pagination.totalCount, resp.filters.limit))
    /\ resp.pagination.hasNextPage = (resp.filters.page < resp.pagination.totalPages)
    /\ resp.pagination.hasPreviousPage = (resp.filters.page > 1)

\* the rows the filter of the answered request matches in the store
MatchingRows ==
  IF resp.op = "searchRestaurants" THEN RestaurantBaseQuery(resp.filters)
  ELSE IF resp.impl = "search.ts" THEN DealBaseQuery(resp.filters)
  ELSE IF FacetStepEmpty(resp.filters) THEN {}
  ELSE DealQueryRows(resp.filters, FilteredDealIds(resp.filters))

BeyondLastPage ==
  /\ resp.filters.page > 1
  /\ (resp.filters.page - 1) * resp.filters.limit >= Cardinality(MatchingRows)

AskedCuisineIds(q) == IF q.cuisineIds # {} THEN q.cuisineIds ELSE CuisineIdsNamed(q.cuisine)
AskedDietaryIds(q) ==
  IF q.dietaryPreferenceIds # {} THEN q.dietaryPreferenceIds
  ELSE DietaryIdsNamed(q.dietaryPreference)

AsksCuisine(q) == q.cuisineIds # {} \/ q.cuisine # {}
AsksDietary(q) == q.dietaryPreferenceIds # {} \/ q.dietaryPreference # {}

\* a facet filter of the query is given and no deal carries a facet it asks for
FacetMatchesNothing(q) ==
  \/ AsksCuisine(q) /\ CuisineMatches(AskedCuisineIds(q)) = {}
  \/ AsksDietary(q) /\ DietaryMatches(AskedDietaryIds(q)) = {}

\* C9: when a facet filter is given and nothing matches it, or its names resolve to no
\* facet, the response has no items and totalCount 0, never the unfiltered result
C9_NoMatchIsEmpty ==
  (IsSearch /\ FacetMatchesNothing(resp.query)) =>
    /\ resp.items = <<>>
    /\ resp.pagination.totalCount = 0

\* restaurants with an active deal tagged with one of the cuisines C
CuisineCandidates(C) ==
  {r \in DOMAIN restaurants :
     \E d \in DOMAIN deals :
       deals[d].restaurantId = r /\ deals[d].status = "active" /\ HasCuisineIn(d, C)}

\* restaurants with an active deal tagged with one of the dietary preferences D
DietaryCandidates(D) ==
  {r \in DOMAIN restaurants :
     \E d \in DOMAIN deals :
       deals[d].restaurantId = r /\ deals[d].status = "active" /\ HasDietaryIn(d, D)}

\* the restaurants the intersection of the candidate sets and the other filters leave
IntersectionRestaurants(q) ==
  {r \in DOMAIN restaurants :
     /\ restaurants[r].isActive
     /\ q.cuisineIds # {} => r \in CuisineCandidates(q.cuisineIds)
     /\ q.dietaryPreferenceIds # {} => r \in DietaryCandidates(q.dietaryPreferenceIds)
     /\ q.hasActiveDeals =>
          \E d \in DOMAIN deals : deals[d].restaurantId = r /\ deals[d].status = "active"}

\* the deals the intersection of the candidate deal ids and the other filters leave
IntersectionDeals(q) ==
  {d \in DOMAIN deals :
     /\ deals[d].status = "active"
     /\ q.cuisineIds # {} => d \in CuisineMatches(q.cuisineIds)
     /\ q.dietaryPreferenceIds # {} => d \in DietaryMatches(q.dietaryPreferenceIds)}

\* C10: with a cuisine filter C and/or a dietary filter D, restaurant search returns
\* exactly the restaurants in the intersection of the candidate sets of the given
\* categories (and passing the other filters); deal search the same on deal ids
C10_FacetIntersection ==
  (/\ IsSearch
   /\ resp.query.cuisineIds # {} \/ resp.query.dietaryPreferenceIds # {}
   /\ resp.query.cuisine = {} /\ resp.query.dietaryPreference = {}
   /\ resp.filters.page = 1
   /\ resp.filters.limit >= Cardinality(DOMAIN restaurants)
   /\ resp.filters.limit >= Cardinality(DOMAIN deals))
  => ItemIds = IF resp.op = "searchRestaurants" THEN IntersectionRestaurants(resp.query)
               ELSE IntersectionDeals(resp.query)

\* ------------------------------------------------- manual status and edits
\* the From -> To pairs of the lifecycle transition table
TransitionTable(from) ==
  CASE from = "draft" -> {"active", "archived"}
    [] from = "active" -> {"expired", "archived"}
    [] from = "expired" -> {"active", "archived"}
    [] OTHER -> {}

\* the message holds the word
Names(message, word) == \E i \in DOMAIN message : message[i] = word

\* C15: a manual status request is accepted only for a From -> To pair of the
\* transition table; every other pair (any request on an archived deal, any return
\* to draft, the status the deal already has) is rejected with an error naming the
\* current and the requested status, and the status stays as it was
C15_ManualTransitions ==
  [][(/\ resp'.op = "patch"
      /\ resp'.dealId \in DOMAIN deals
      /\ resp'.status \in dealStatusEnum)
     => LET current == deals[resp'.dealId].status
            requested == resp'.status
        IN /\ resp'.code = 200 => requested \in TransitionTable(current)
           /\ requested \notin TransitionTable(current) =>
                /\ resp'.code # 200
                /\ deals' = deals
                /\ Names(resp'.error, current)
                /\ Names(resp'.error, requested)]_vars

\* C16: an edit request on an archived deal is rejected and changes neither the deal
\* nor its facet edges; an edit request on a draft, active or expired deal is never
\* rejected for the deal's status
C16_ArchivedNotEditable ==
  [][(resp'.op = "put" /\ resp'.dealId \in DOMAIN deals)
     => IF deals[resp'.dealId].status = "archived"
        THEN /\ resp'.code # 200
             /\ deals' = deals
             /\ dealCuisines' = dealCuisines
             /\ dealDietaryPreferences' = dealDietaryPreferences
        ELSE /\ resp'.logged # <<"Cannot modify archived deals">>
             /\ resp'.code # 200 => resp'.logged = <<"Start date must be before end date">>]_vars

\* an edit of an archived deal was turned away
C16_Witness ==
  /\ resp.op = "put"
  /\ resp.code = 500
  /\ resp.logged = <<"Cannot modify archived deals">>
  /\ resp.dealId \in DOMAIN deals
  /\ deals[resp.dealId].status = "archived"

\* ------------------------------------------------- the job, step by step
\* C17: at no time are two runs of the job in progress at once
C17_NoOverlappingRuns == Cardinality(RunsInProgress) <= 1

\* a complete run that started right after a failed run, on the date the failed run
\* started, with no other run in progress during either of them
RetryCompleted ==
  /\ resp.op = "jobDone"
  /\ resp.retryOf # {}
  /\ ~resp.overlapped
  /\ ~Get(resp.retryOf).overlapped
  /\ Get(resp.retryOf).day = today

\* C18: a run that fails in any phase is logged and stops neither the process nor the
\* schedule, and a failed run followed by a complete run on the same date leaves every
\* deal with the status one failure-free run from the original state gives it
C18_FailedRunRetried ==
  /\ ~Crashed
  /\ resp.op = "jobFailed" =>
       /\ resp.logged # <<>>
       /\ jobRuns[resp.run].pc = "failed"
       /\ \A k \in RunIds \ {1} : ~InProgress(jobRuns[k]) => ENABLED StartRun(k)
  /\ RetryCompleted =>
       deals = SweepResult(Get(Get(resp.retryOf).startedIn), today).deals

\* a run failed in its second phase after its first phase moved a deal, and the run
\* after it completed and moved a deal as well
C18_Witness ==
  /\ RetryCompleted
  /\ \E d \in DOMAIN deals :
       /\ Get(Get(resp.retryOf).startedIn)[d].status = "draft"
       /\ Get(resp.startedIn)[d].status = "active"
  /\ resp.stats.activeToExpired > 0

\* ------------------------------------------------------- location filtering
HasLocation(q) == q.latitude # Undefined /\ q.longitude # Undefined

\* the restaurants within the radius of the request's coordinates
WithinRadius(q) ==
  {r \in DOMAIN restaurants :
     /\ DistanceCol(q.latitude, q.longitude, r) # {}
     /\ Get(DistanceCol(q.latitude, q.longitude, r)) <= Get(q.distance)}

\* C11: a search of search.ts with latitude, longitude and a radius returns exactly the
\* matching rows whose restaurant lies within the radius: no row farther away, no row
\* of a restaurant without coordinates, and no row within the radius left out
C11_RadiusFilter ==
  (IsSearch /\ resp.impl = "search.ts" /\ HasLocation(resp.query)
     /\ resp.query.distance # Undefined)
    => IF resp.op = "searchRestaurants"
       THEN ItemIds = {r \in WithinRadius(resp.query) : restaurants[r].isActive}
       ELSE ItemIds = {d \in DOMAIN deals : /\ deals[d].status = "active"
                                             /\ deals[d].restaurantId \in WithinRadius(resp.query)}

\* a request whose location parameters the specification calls invalid
InvalidLocation(q) ==
  \/ (q.latitude = Undefined) # (q.longitude = Undefined)
  \/ q.latitude # Undefined /\ (Get(q.latitude) < 0 - 90 \/ Get(q.latitude) > 90)
  \/ q.longitude # Undefined /\ (Get(q.longitude) < 0 - 180 \/ Get(q.longitude) > 180)
  \/ q.distance # Undefined /\ ~HasLocation(q)

\* C12: a request with one coordinate only, a latitude outside [-90, 90], a longitude
\* outside [-180, 180] or a radius without both coordinates is answered with a
\* validation error
C12_LocationValidated ==
  (resp.op \in {"searchRestaurants", "searchDeals", "badRequest"}
     /\ InvalidLocation(resp.query))
    => resp.code = 400

\* ------------------------------------------------------------------ sorting
\* the items come in the order of key, descending or ascending
SortedBy(items, key, descending) ==
  \A i, j \in DOMAIN items :
    i < j => IF descending THEN key[items[i].id] >= key[items[j].id]
             ELSE key[items[i].id] <= key[items[j].id]

\* the sortBy a request means: rating, distance, newest, anything else relevance
SortByOf(q) == IF q.sortBy \in {"rating", "distance", "newest"} THEN q.sortBy ELSE "relevance"

\* the direction the specification gives a request
SpecifiedDesc(q) ==
  IF q.sortOrder \in {"asc", "desc"} THEN q.sortOrder = "desc"
  ELSE SortByOf(q) \in {"rating", "relevance"}

\* the key each search of search.ts orders by
OrderKey ==
  IF resp.op = "searchRestaurants"
  THEN [r \in DOMAIN restaurants |-> RestaurantSortKey(resp.filters, r)]
  ELSE [d \in DOMAIN deals |-> DealSortKey(resp.filters, d)]

\* C19: in both searches of search.ts the rows come in the direction of an explicit
\* sortOrder asc or desc whatever the sortBy, and without one descending for rating
\* and relevance and ascending for distance and newest
C19_SortDirection ==
  (IsSearch /\ resp.impl = "search.ts")
    => SortedBy(resp.items, OrderKey, SpecifiedDesc(resp.query))

\* the key the specification gives a request: the rating average, the creation
\* timestamp, the computed distance (the creation timestamp without coordinates), and
\* for relevance the distance when both coordinates are supplied, else the rating
SpecifiedKey ==
  LET q == resp.query
      restaurantOf(x) == IF resp.op = "searchRestaurants" THEN x ELSE deals[x].restaurantId
      rows == IF resp.op = "searchRestaurants" THEN DOMAIN restaurants ELSE DOMAIN deals
      byDistance == SortByOf(q) = "distance" \/ SortByOf(q) = "relevance"
  IN [x \in rows |->
        CASE SortByOf(q) = "rating" -> restaurants[restaurantOf(x)].ratingAvg
          [] SortByOf(q) = "newest" -> x
          [] byDistance /\ HasLocation(q) -> DistanceSortKey(q.latitude, q.longitude, restaurantOf(x))
          [] SortByOf(q) = "distance" -> x
          [] OTHER -> restaurants[restaurantOf(x)].ratingAvg]

\* relevance is distance ascending or rating descending; the other keys come in the
\* direction the search takes for them
SpecifiedKeyDesc ==
  IF SortByOf(resp.query) = "relevance" THEN ~HasLocation(resp.query)
  ELSE IF resp.op = "searchRestaurants" THEN RestaurantSortDesc(resp.filters)
  ELSE resp.filters.sortOrder = "desc"

\* C20: the rows of a search of search.ts come ordered by the key of the sortBy:
\* rating by rating average, newest by creation timestamp, distance by the computed
\* distance or as newest without coordinates, relevance (also any unrecognised sortBy)
\* by distance ascending when both coordinates are supplied, latitude 0 included, and
\* by rating descending otherwise
C20_SortKey ==
  (IsSearch /\ resp.impl = "search.ts")
    => SortedBy(resp.items, SpecifiedKey, SpecifiedKeyDesc)

\* ---------------------------------------------------------------- bookmarks
\* the user the request is authenticated as, if any
Viewer == optionalAuth(resp.query.authorization)

\* the bookmark table of the rows a search returns
FavoritesOf(op) ==
  IF op = "searchRestaurants"
  THEN {<<row.userId, row.restaurantId>> : row \in userFavoriteRestaurants}
  ELSE {<<row.userId, row.dealId>> : row \in userFavoriteDeals}

\* C13: a search without an authenticated user (no Authorization header, a token that
\* does not verify, or a subject without a users row) marks every item isBookmarked
\* false and reads no bookmark table
C13_AnonymousNoBookmarks ==
  (IsSearch /\ Viewer = Undefined)
    => /\ \A i \in DOMAIN resp.items : ~resp.items[i].isBookmarked
       /\ resp.reads = {}

\* an anonymous search returned an item that users have bookmarked
C13_Witness ==
  /\ IsSearch /\ Viewer = Undefined
  /\ resp.query.authorization # Undefined
  /\ \E i \in DOMAIN resp.items :
       \A u \in UserIds : <<u, resp.items[i].id>> \in FavoritesOf(resp.op)

\* C14: for an authenticated user u an item x is marked isBookmarked exactly when the
\* bookmark row (u, x) exists, whatever the bookmarks of other users
C14_BookmarkedIffRow ==
  (IsSearch /\ Viewer # Undefined)
    => \A i \in DOMAIN resp.items :
         resp.items[i].isBookmarked <=> <<Get(Viewer), resp.items[i].id>> \in FavoritesOf(resp.op)

\* an authenticated deal search returned a deal of its user's bookmarks and a deal only
\* another user has bookmarked
C14_Witness ==
  /\ resp.op = "searchDeals" /\ Viewer # Undefined
  /\ \E i, j \in DOMAIN resp.items :
       /\ resp.items[i].isBookmarked
       /\ ~resp.items[j].isBookmarked
       /\ \E u \in UserIds \ Viewer : <<u, resp.items[j].id>> \in FavoritesOf(resp.op)

\* ---------------------------------------------------------- restaurant cards
\* the active deals of a restaurant
ActiveDealsOf(r) == {d \in DOMAIN deals : deals[d].restaurantId = r /\ deals[d].status = "active"}

\* C21: every restaurant item of a page carries in activeDeals exactly the active
\* deals of that restaurant, none missing and none extra however many active deals
\* the restaurants of the page have together, and activeDealsCount is their number
C21_ActiveDealsComplete ==
  (resp.op = "searchRestaurants" /\ resp.impl = "search.ts")
    => \A i \in DOMAIN resp.items :
         /\ {a.id : a \in resp.items[i].activeDeals} = ActiveDealsOf(resp.items[i].id)
         /\ resp.items[i].activeDealsCount = Cardinality(ActiveDealsOf(resp.items[i].id))

\* ------------------------------------------------------------- stored dates
\* C22: after any sequence of deal creations and deal edits every stored deal has
\* startDate <= endDate
C22_DatesOrdered ==
  \A d \in DOMAIN deals : deals[d].startDate <= deals[d].endDate

\* ------------------------------------------------------- bookmark uniqueness
\* no two rows of a bookmark table have the same (user, target) pair
OnePerPair(kind) ==
  \A r1, r2 \in TableOf(kind) : PairOf(kind, r1) = PairOf(kind, r2) => r1 = r2

\* C23: after any interleaving of bookmark and un-bookmark requests each table holds
\* at most one row per (user, deal) and per (user, restaurant) pair; a request for a
\* deal found bookmarked is rejected, and one for a restaurant found bookmarked
\* updates the bookmark and answers 200 instead of inserting
C23_OneBookmarkPerPair ==
  /\ OnePerPair("favoriteDeal")
  /\ OnePerPair("bookmarkRestaurant")
  /\ (resp.op = "favoriteDeal" /\ resp.existed) => resp.code = 500
  /\ (resp.op = "bookmarkRestaurant" /\ resp.existed) => resp.code = 200
  /\ \A k \in RequestIds :
       (requests[k].pc # "idle" /\ requests[k].existed)
         => requests[k].kind = "bookmarkRestaurant" /\ requests[k].pc = "update"

\* two requests for the same pair both found no bookmark, and the second insert was
\* refused: the pair has its one row
C23_Witness ==
  /\ resp.op \in BookmarkKinds
  /\ resp.code = 500
  /\ ~resp.existed
  /\ resp.logged = <<"duplicate key value violates unique constraint">>
  /\ Cardinality(RowsOfPair(resp.op, resp.userId, resp.target)) = 1

\* ------------------------------------------------------------- phase order
\* C24: whatever the store and the date, the three updates of a run applied in any
\* of their six orders leave the statuses the job's own order leaves, and no deal is
\* moved by more than one of the three
C24_PhaseOrderIrrelevant ==
  resp.op = "phases"
    => /\ deals = SweepResult(resp.before, today).deals
       /\ \A i, j \in 1..3 : i # j => resp.moved[i] \cap resp.moved[j] = {}

\* the updates ran in another order than the job's and two of them moved a deal each
C24_Witness ==
  /\ resp.op = "phases"
  /\ resp.order # JobPhases
  /\ Cardinality({i \in 1..3 : resp.moved[i] # {}}) >= 2

\* ------------------------------------------------------ interleaved requests
\* C26: however the statements of status requests, edit requests and runs of the
\* job interleave, a deal stored as archived is not written again: neither its status
\* nor its fields change
C26_ArchivedNeverRewritten ==
  [][\A d \in DOMAIN deals : deals[d].status = "archived" => deals'[d] = deals[d]]_vars

\* ------------------------------------------------------- status after a run
\* C27: right after a run of the job, whatever creations, edits and accepted status
\* requests came before it, every deal that is not archived is active exactly when
\* startDate <= today <= endDate
C27_ActiveIffInRange ==
  resp.op = "sweep"
    => \A d \in DOMAIN deals :
         deals[d].status # "archived"
           => (deals[d].status = "active" <=> InRange(deals[d], today))

\* ------------------------------------------------------- untouched deals
\* the place of a status in the order draft, active, expired
StatusRank(status) ==
  CASE status = "draft" -> 0
    [] status = "active" -> 1
    [] status = "expired" -> 2
    [] OTHER -> 3

\* C28: a deal that is created and then neither edited nor given a status request
\* only moves forward in the order draft, active, expired as runs of the job follow
\* each other on non-decreasing dates: an expired deal is not made active again and
\* no deal returns to draft
C28_StatusOnlyAdvances ==
  [][\A d \in DOMAIN deals :
       /\ d \in DOMAIN deals'
       /\ StatusRank(deals'[d].status) >= StatusRank(deals[d].status)]_vars

\* a run of the job found a deal that an earlier run had expired
C28_Witness ==
  /\ resp.op = "sweep"
  /\ resp.after.op = "sweep"
  /\ \E d \in DOMAIN deals : deals[d].status = "expired" /\ d \notin resp.expired

\* ------------------------------------------------------------- deal deletion
\* C29: a delete request either removes the deal together with all its cuisine and
\* dietary edges or, rejected or failed, leaves the deal and all its edges as they were
C29_DeleteAllOrNothing ==
  [][resp'.op = "delete"
       => \/ /\ resp'.dealId \notin DOMAIN deals'
             /\ \A e \in dealCuisines' \cup dealDietaryPreferences' : e[1] # resp'.dealId
          \/ /\ deals' = deals
             /\ dealCuisines' = dealCuisines
             /\ dealDietaryPreferences' = dealDietaryPreferences]_vars

\* ------------------------------------------------------ inactive restaurants
\* C30: every deal a deal search returns belongs to a restaurant with isActive true,
\* and no restaurant search returns a restaurant with isActive false
C30_OnlyActiveRestaurants ==
  /\ resp.op = "searchDeals"
       => \A i \in DOMAIN resp.items : restaurants[resp.items[i].restaurantId].isActive
  /\ resp.op = "searchRestaurants"
       => \A i \in DOMAIN resp.items : restaurants[resp.items[i].id].isActive

\* ---------------------------------------------------------------- C25
\* the ids on a page
PageIds(r) == {r.items[i].id : i \in DOMAIN r.items}

\* two requests in a row are pages 1 and 2 of one two-page result list
ConsecutivePages ==
  /\ resp.op \in {"searchRestaurants", "searchDeals"}
  /\ resp'.op = resp.op
  /\ resp'.query = [resp.query EXCEPT !.page = 2]
  /\ resp.query.page = 1
  /\ resp.pagination.totalPages = 2
  /\ UNCHANGED <<store, others>>

\* C25: for a fixed store, filters and sort, the pages 1 to totalPages hold every
\* matching row exactly once, no row on two pages and none missing, also when rows
\* have equal sort keys
C25_PagesPartition ==
  [][ConsecutivePages
       => /\ PageIds(resp) \cap PageIds(resp') = {}
          /\ Cardinality(PageIds(resp) \cup PageIds(resp')) = resp.pagination.totalCount]_vars

====
